---- MODULE Spec2Model ----
(***************************************************************************)
(* DRA - Distance to Boundary: the asset-proximity resolution engine of    *)
(* DRA_Distance_to_Boundary_v17.py as a state machine.                     *)
(*                                                                         *)
(* Distances are integers in millimetres (Metres(m) converts), so that the *)
(* 2-decimal rounding of the reported distance is a real conversion.       *)
(* Strings whose characters the code inspects (tag values, names) are      *)
(* sequences of one-character strings; strings the code only compares or   *)
(* concatenates are TLA+ strings.                                          *)
(***************************************************************************)
EXTENDS Integers, Sequences, FiniteSets, TLC

VARIABLES
    zd,         \* zone_flags: the argument dist_m (millimetres)
    zpc,        \* zone_flags: "call" before the call, "ret" after it
    zflags,     \* zone_flags: the returned dict
    health,     \* query_overpass: what each endpoint does with the request
    qpc,        \* query_overpass: "loop", "returned" or "raised"
    qi,         \* query_overpass: position of the for loop in OVERPASS_ENDPOINTS
    contacted,  \* query_overpass: the requests.get calls issued, in order
    last_exc,   \* query_overpass: the local last_exc
    qret,       \* query_overpass: the returned (payload, url) or the raised error
    ctags,      \* map_category_by_tags: the argument tags
    cname,      \* map_category_by_tags: the argument name
    cpc,        \* map_category_by_tags: "call", "once" (classified), "twice"
    cresult,    \* map_category_by_tags: the value returned by the first call
    cresult2,   \* map_category_by_tags: the value returned by the second call
    rows,       \* process_coords: list(reader), the input rows
    template_docx, \* process_coords: whether a template was given
    scenario,   \* which sample inputs the run draws from: "row", "relation", "word", "rows"
    pc,         \* process_coords: "row", "projected", "elements", "done", "raised";
                \* CreatingWordFile: "word_done", "word_raised"
    idx,        \* process_coords: the row being processed (from 1)
    out,        \* the records written to the output csv, in order
    written,    \* for each record of out, the row that wrote it
    requests,   \* the Overpass queries issued, in order
    easting,    \* process_coords locals
    northing,
    geo,
    used_server,
    elements,
    ei,         \* position of "for el in elements"
    matched_items_all,
    matched_items_unique,
    seen_coords,
    map_assets, \* the assets of the last export_map_static call
    doc_items,  \* what the last fill_dra_docx_and_export call made of its matched_items
    word_saves, \* CreatingWordFile: the documents saved, one per coordinate group
    apc,        \* app.py: position in the script run: "idle", "csv", "word", "thread",
                \* "list", "map"
    run,        \* app.py: the number of clicks on "Run DRA Processing" so far
    input_csv_file, \* app.py: the upload of the current run
    output_csv, \* app.py: the file at output_csv_path
    processed,  \* app.py: st.session_state.processed
    word_thread, \* app.py: word_thread: "none", "running", "finished", "joined"
    word_dir,   \* app.py: the runs whose thread saved documents into output_word_dir
    word_files, \* app.py: st.session_state.word_files
    map_files,  \* app.py: st.session_state.map_files
    app_log     \* app.py: what the script runs did, in order

zoneVars == <<zd, zpc, zflags>>
overpassVars == <<health, qpc, qi, contacted, last_exc, qret>>
classifyVars == <<ctags, cname, cpc, cresult, cresult2>>
rowVars ==
    <<rows, template_docx, scenario, pc, idx, out, written, requests, easting, northing, geo,
      used_server, elements, ei, matched_items_all, matched_items_unique, seen_coords,
      map_assets, doc_items>>
wordVars == <<word_saves>>
appVars ==
    <<apc, run, input_csv_file, output_csv, processed, word_thread, word_dir, word_files,
      map_files, app_log>>
vars == <<zoneVars, overpassVars, classifyVars, rowVars, wordVars, appVars>>

notZone == <<overpassVars, classifyVars, rowVars, wordVars, appVars>>
notOverpass == <<zoneVars, classifyVars, rowVars, wordVars, appVars>>
notClassify == <<zoneVars, overpassVars, rowVars, wordVars, appVars>>
\* what process_coords leaves alone
notRows == <<zoneVars, overpassVars, classifyVars, wordVars, appVars>>
notApp == <<zoneVars, overpassVars, classifyVars, rowVars, wordVars>>

None == "None"

(***************************************************************************)
(* Config                                                                  *)
(***************************************************************************)
ZONE_A == "<10m"
ZONE_B == "10-25m"
ZONE_C == ">25-50m"
ZONE_D == ">50-100m"
ZONES == {ZONE_A, ZONE_B, ZONE_C, ZONE_D}

SEARCH_RADIUS == 100

OVERPASS_ENDPOINTS ==
    << "https://overpass.kumi.systems/api/interpreter",
       "https://overpass-api.de/api/interpreter",
       "https://lz4.overpass-api.de/api/interpreter" >>

Metres(m) == m * 1000

X(b) == IF b THEN "X" ELSE ""

(***************************************************************************)
(* zone_flags                                                              *)
(***************************************************************************)
zone_flags_open_10(dist_m) ==
    (ZONE_A :> X(dist_m < Metres(10)))
    @@ (ZONE_B :> X(Metres(10) < dist_m /\ dist_m <= Metres(25)))
    @@ (ZONE_C :> X(Metres(25) < dist_m /\ dist_m <= Metres(50)))
    @@ (ZONE_D :> X(Metres(50) < dist_m /\ dist_m <= Metres(100)))

zone_flags_open_100(dist_m) ==
    (ZONE_A :> X(dist_m < Metres(10)))
    @@ (ZONE_B :> X(Metres(10) <= dist_m /\ dist_m <= Metres(25)))
    @@ (ZONE_C :> X(Metres(25) < dist_m /\ dist_m <= Metres(50)))
    @@ (ZONE_D :> X(Metres(50) < dist_m))

zone_flags(dist_m) ==
    (ZONE_A :> X(dist_m < Metres(10)))
    @@ (ZONE_B :> X(Metres(10) <= dist_m /\ dist_m <= Metres(25)))
    @@ (ZONE_C :> X(Metres(25) < dist_m /\ dist_m <= Metres(50)))
    @@ (ZONE_D :> X(Metres(50) < dist_m /\ dist_m <= Metres(100)))

NoFlags == [z \in ZONES |-> ""]

\* the zones a flags dict marks
Marked(flags) == {z \in ZONES : flags[z] = "X"}

(***************************************************************************)
(* Inputs of the zone_flags specification: every millimetre within Window  *)
(* of a band edge (and of 0), and every whole metre from -MaxBelow to      *)
(* SEARCH_RADIUS + MaxAbove.                                               *)
(***************************************************************************)
Window == 12
MaxBelow == 3
MaxAbove == 3

BandEdges == {0, 10, 25, 50, 100}

ZoneInputs ==
    {Metres(e) + o : e \in BandEdges, o \in -Window..Window}
    \cup {Metres(m) : m \in -MaxBelow..(SEARCH_RADIUS + MaxAbove)}

ZoneIdle == zd = 0 /\ zpc = "idle" /\ zflags = NoFlags

ZoneInit == zd \in ZoneInputs /\ zpc = "call" /\ zflags = NoFlags

CallZoneFlags ==
    /\ zpc = "call"
    /\ zflags' = zone_flags(zd)
    /\ zpc' = "ret"
    /\ UNCHANGED <<zd, notZone>>

(***************************************************************************)
(* query_overpass, one loop iteration per step                             *)
(***************************************************************************)
\* what an endpoint does with one request: answers, or fails in requests.get
\* (timeout), in raise_for_status (non-2xx) or in resp.json() (malformed)
Outcomes == {"ok", "timeout", "http", "badjson"}
Failures == Outcomes \ {"ok"}

Urls == {OVERPASS_ENDPOINTS[i] : i \in DOMAIN OVERPASS_ENDPOINTS}

\* resp.json() of the endpoint url
Payload(url) == [served_by |-> url]
\* the exception the endpoint url raises
Exc(url, kind) == [url |-> url, kind |-> kind]

OverpassIdle ==
    /\ health = [u \in Urls |-> "ok"]
    /\ qpc = "idle" /\ qi = 1 /\ contacted = <<>> /\ last_exc = None /\ qret = None

OverpassInit ==
    /\ health \in [Urls -> Outcomes]
    /\ qpc = "loop" /\ qi = 1 /\ contacted = <<>> /\ last_exc = None /\ qret = None

\* (mutant) the url returned is the head of the list, not the one that answered
TryEndpointOk_ReportsFirst ==
    /\ qpc = "loop" /\ qi <= Len(OVERPASS_ENDPOINTS)
    /\ LET url == OVERPASS_ENDPOINTS[qi] IN
        /\ health[url] = "ok"
        /\ contacted' = Append(contacted, url)
        /\ qret' = <<Payload(url), OVERPASS_ENDPOINTS[1]>>
        /\ qpc' = "returned"
    /\ UNCHANGED <<health, qi, last_exc, notOverpass>>

\* lines 144-149: the request to the next endpoint succeeds
TryEndpointOk ==
    /\ qpc = "loop" /\ qi <= Len(OVERPASS_ENDPOINTS)
    /\ LET url == OVERPASS_ENDPOINTS[qi] IN
        /\ health[url] = "ok"
        /\ contacted' = Append(contacted, url)
        /\ qret' = <<Payload(url), url>>
        /\ qpc' = "returned"
    /\ UNCHANGED <<health, qi, last_exc, notOverpass>>

\* (mutant) only the first error is remembered
TryEndpointFails_KeepsFirst ==
    /\ qpc = "loop" /\ qi <= Len(OVERPASS_ENDPOINTS)
    /\ LET url == OVERPASS_ENDPOINTS[qi] IN
        /\ health[url] \in Failures
        /\ contacted' = Append(contacted, url)
        /\ last_exc' = IF qi = 1 THEN Exc(url, health[url]) ELSE last_exc
        /\ qi' = qi + 1
    /\ UNCHANGED <<health, qpc, qret, notOverpass>>

\* lines 150-152: the request fails, remember the error and go on
TryEndpointFails ==
    /\ qpc = "loop" /\ qi <= Len(OVERPASS_ENDPOINTS)
    /\ LET url == OVERPASS_ENDPOINTS[qi] IN
        /\ health[url] \in Failures
        /\ contacted' = Append(contacted, url)
        /\ last_exc' = Exc(url, health[url])
        /\ qi' = qi + 1
    /\ UNCHANGED <<health, qpc, qret, notOverpass>>

\* line 153: the list is exhausted
RaiseLast ==
    /\ qpc = "loop" /\ qi > Len(OVERPASS_ENDPOINTS)
    /\ qret' = last_exc
    /\ qpc' = "raised"
    /\ UNCHANGED <<health, qi, contacted, last_exc, notOverpass>>

(***************************************************************************)
(* map_category_by_tags                                                    *)
(*                                                                         *)
(* A tags dict is the sequence of its <<key, value>> items in iteration    *)
(* order; keys are TLA+ strings, values and names are character sequences. *)
(***************************************************************************)
\* the string literals of map_category_by_tags
s_landfill == <<"l","a","n","d","f","i","l","l">>
s_dump == <<"d","u","m","p">>
s_scrap_yard == <<"s","c","r","a","p","_","y","a","r","d">>
s_gasometer == <<"g","a","s","o","m","e","t","e","r">>
s_fuel == <<"f","u","e","l">>
s_substation == <<"s","u","b","s","t","a","t","i","o","n">>
s_wastewater_plant == <<"w","a","s","t","e","w","a","t","e","r","_","p","l","a","n","t">>
s_sewage_works == <<"s","e","w","a","g","e","_","w","o","r","k","s">>
s_industrial == <<"i","n","d","u","s","t","r","i","a","l">>
s_yes == <<"y","e","s">>
s_quarry == <<"q","u","a","r","r","y">>
s_plant == <<"p","l","a","n","t">>
s_scrap == <<"s","c","r","a","p">>
s_gasholder == <<"g","a","s","h","o","l","d","e","r">>
s_gas_holder == <<"g","a","s"," ","h","o","l","d","e","r">>
s_sewage == <<"s","e","w","a","g","e">>
s_factory == <<"f","a","c","t","o","r","y">>
s_power_plant == <<"p","o","w","e","r"," ","p","l","a","n","t">>
s_waste == <<"w","a","s","t","e">>
s_petrol == <<"p","e","t","r","o","l">>
s_garage == <<"g","a","r","a","g","e">>
s_garages == <<"g","a","r","a","g","e","s">>
s_treatment_works == <<"t","r","e","a","t","m","e","n","t"," ","w","o","r","k","s">>
s_manufacturing == <<"m","a","n","u","f","a","c","t","u","r","i","n","g">>
s_mining == <<"m","i","n","i","n","g">>
s_cafe == <<"c","a","f","e">>
s_line == <<"l","i","n","e">>
s_solar == <<"s","o","l","a","r">>

\* display names and free text of the sample features
n_Unnamed_asset == <<"U","n","n","a","m","e","d"," ","a","s","s","e","t">>
n_Scrap_Metal == <<"S","c","r","a","p"," ","M","e","t","a","l">>
n_Gas_Holder == <<"G","a","s"," ","H","o","l","d","e","r">>
n_Gasholder_Garage == <<"G","a","s","h","o","l","d","e","r"," ","G","a","r","a","g","e">>
n_Substation == <<"S","u","b","s","t","a","t","i","o","n">>
n_Sewage_Works == <<"S","e","w","a","g","e"," ","W","o","r","k","s">>
n_Old_Factory == <<"O","l","d"," ","F","a","c","t","o","r","y">>
n_Quarry == <<"Q","u","a","r","r","y">>
n_Power_Plant == <<"P","o","w","e","r"," ","P","l","a","n","t">>
n_Waste_Depot == <<"W","a","s","t","e"," ","D","e","p","o","t">>
n_Petrol == <<"P","e","t","r","o","l">>
n_Treatment_Works == <<"T","r","e","a","t","m","e","n","t"," ","W","o","r","k","s">>
n_Mining_Co == <<"M","i","n","i","n","g"," ","C","o">>
n_Corner_Cafe == <<"C","o","r","n","e","r"," ","C","a","f","e">>

UpperToLower ==
    ("A" :> "a") @@ ("B" :> "b") @@ ("C" :> "c") @@ ("D" :> "d") @@ ("E" :>
    "e") @@ ("F" :> "f") @@ ("G" :> "g") @@ ("H" :> "h") @@ ("I" :> "i") @@
    ("J" :> "j") @@ ("K" :> "k") @@ ("L" :> "l") @@ ("M" :> "m") @@ ("N" :>
    "n") @@ ("O" :> "o") @@ ("P" :> "p") @@ ("Q" :> "q") @@ ("R" :> "r") @@
    ("S" :> "s") @@ ("T" :> "t") @@ ("U" :> "u") @@ ("V" :> "v") @@ ("W" :>
    "w") @@ ("X" :> "x") @@ ("Y" :> "y") @@ ("Z" :> "z")

\* str.lower()
Lower(s) == [i \in DOMAIN s |-> IF s[i] \in DOMAIN UpperToLower THEN UpperToLower[s[i]] ELSE s[i]]

\* sub in text
Contains(sub, text) ==
    \E i \in 1..(Len(text) - Len(sub) + 1) : SubSeq(text, i, i + Len(sub) - 1) = sub

\* " ".join(strs)
RECURSIVE Join(_)
Join(strs) ==
    IF strs = <<>> THEN <<>>
    ELSE IF Len(strs) = 1 THEN strs[1]
    ELSE strs[1] \o <<" ">> \o Join(Tail(strs))

\* what tags.get(key) gives for a missing key (None), as a value
NoValue == <<None>>

HasKey(tags, key) == \E i \in DOMAIN tags : tags[i][1] = key

\* tags.get(key)
Get(tags, key) ==
    IF HasKey(tags, key) THEN tags[CHOOSE i \in DOMAIN tags : tags[i][1] = key][2]
    ELSE NoValue

\* truth value of tags.get(key)
Truthy(v) == v # NoValue /\ v # <<>>

\* the text searched by the substring rules (lines 96-97)
TagText(tags, name) ==
    LET name_l == IF name # <<>> THEN Lower(name) ELSE <<>>
    IN Join([i \in DOMAIN tags |-> Lower(tags[i][2])]) \o <<" ">> \o name_l

Categories ==
    { "Waste Sites", "Gas holder stations", "Petrol stations / Garages", "Sub-Stations",
      "Sewage Treatment Works", "Industrial / Manufacturing",
      "Mining (coal, metalliferous)", "Power Plants" }

\* (mutant) the gas holder rule returns the name the DOCX table uses
map_category_by_tags_docx_name(tags, name) ==
    LET text == TagText(tags, name) IN
    IF Get(tags, "man_made") = s_gasometer \/ Contains(s_gasholder, text)
       \/ Contains(s_gas_holder, text)
    THEN "Gas Holder Stations"
    ELSE None

map_category_by_tags(tags, name) ==
    LET text == TagText(tags, name) IN
    IF Get(tags, "landuse") = s_landfill \/ Get(tags, "leisure") = s_dump
       \/ Get(tags, "waste") = s_landfill
    THEN "Waste Sites"
    ELSE IF Get(tags, "landuse") = s_scrap_yard \/ Truthy(Get(tags, "recycling"))
            \/ Contains(s_scrap, text)
    THEN "Waste Sites"
    ELSE IF Get(tags, "man_made") = s_gasometer \/ Contains(s_gasholder, text)
            \/ Contains(s_gas_holder, text)
    THEN "Gas holder stations"
    ELSE IF Get(tags, "amenity") = s_fuel
    THEN "Petrol stations / Garages"
    ELSE IF Get(tags, "power") = s_substation \/ Contains(s_substation, text)
    THEN "Sub-Stations"
    ELSE IF Get(tags, "man_made") \in {s_wastewater_plant, s_sewage_works}
            \/ Contains(s_sewage, text)
    THEN "Sewage Treatment Works"
    ELSE IF Get(tags, "landuse") = s_industrial \/ Get(tags, "industrial") = s_yes
            \/ Contains(s_factory, text)
    THEN "Industrial / Manufacturing"
    ELSE IF Get(tags, "landuse") = s_quarry \/ Get(tags, "mining") = s_yes
            \/ Contains(s_quarry, text)
    THEN "Mining (coal, metalliferous)"
    ELSE IF Get(tags, "power") = s_plant \/ HasKey(tags, "plant:source")
            \/ Contains(s_power_plant, text)
    THEN "Power Plants"
    \* fallbacks
    ELSE IF Contains(s_waste, text)
    THEN "Waste Sites"
    ELSE IF Contains(s_petrol, text) \/ Contains(s_garage, text)
            \/ Contains(s_garages, text) \/ Contains(s_fuel, text)
    THEN "Petrol stations / Garages"
    ELSE IF Contains(s_substation, text)
    THEN "Sub-Stations"
    ELSE IF Contains(s_sewage, text) \/ Contains(s_treatment_works, text)
    THEN "Sewage Treatment Works"
    ELSE IF Contains(s_industrial, text) \/ Contains(s_manufacturing, text)
            \/ Contains(s_factory, text)
    THEN "Industrial / Manufacturing"
    ELSE IF Contains(s_mining, text) \/ Contains(s_quarry, text)
    THEN "Mining (coal, metalliferous)"
    ELSE None

(***************************************************************************)
(* Inputs of the map_category_by_tags specification: tag dicts of up to    *)
(* two items, one of them possibly free text, and a name.                  *)
(***************************************************************************)
StructuredItems ==
    { <<"landuse", s_landfill>>, <<"leisure", s_dump>>, <<"waste", s_landfill>>,
      <<"landuse", s_scrap_yard>>, <<"recycling", s_yes>>, <<"man_made", s_gasometer>>,
      <<"amenity", s_fuel>>, <<"power", s_substation>>,
      <<"man_made", s_wastewater_plant>>, <<"man_made", s_sewage_works>>,
      <<"landuse", s_industrial>>, <<"industrial", s_yes>>, <<"landuse", s_quarry>>,
      <<"mining", s_yes>>, <<"power", s_plant>>, <<"plant:source", s_solar>>,
      <<"amenity", s_cafe>>, <<"power", s_line>> }

FreeTexts ==
    { n_Scrap_Metal, n_Gas_Holder, n_Gasholder_Garage, n_Substation, n_Sewage_Works,
      n_Old_Factory, n_Quarry, n_Power_Plant, n_Waste_Depot, n_Petrol,
      n_Treatment_Works, n_Mining_Co, n_Corner_Cafe }

SampleNames == FreeTexts \cup {<<>>, n_Unnamed_asset}

SampleTags ==
    {<<>>}
    \cup {<<p>> : p \in StructuredItems}
    \cup {<< <<"operator", t>> >> : t \in FreeTexts}
    \cup {<<p, <<"operator", t>> >> : p \in StructuredItems, t \in FreeTexts}
    \cup {<<p[1], p[2]>> : p \in {q \in StructuredItems \X StructuredItems : q[1][1] # q[2][1]}}

ClassifyIdle == ctags = <<>> /\ cname = <<>> /\ cpc = "idle" /\ cresult = None /\ cresult2 = None

ClassifyInit ==
    /\ ctags \in SampleTags /\ cname \in SampleNames
    /\ cpc = "call" /\ cresult = None /\ cresult2 = None

\* the first classification of (ctags, cname)
Classify ==
    /\ cpc = "call"
    /\ cresult' = map_category_by_tags(ctags, cname)
    /\ cpc' = "once"
    /\ UNCHANGED <<ctags, cname, cresult2, notClassify>>

\* the same tags and name classified a second time
ClassifyAgain ==
    /\ cpc = "once"
    /\ cresult2' = map_category_by_tags(ctags, cname)
    /\ cpc' = "twice"
    /\ UNCHANGED <<ctags, cname, cresult, notClassify>>

(***************************************************************************)
(* query_overpass as a function of the endpoints' health: the loop of      *)
(* lines 144-153 run to its end.  contacted lists the requests issued.     *)
(***************************************************************************)
RECURSIVE query_overpass_from(_, _, _)
query_overpass_from(h, i, last) ==
    IF i > Len(OVERPASS_ENDPOINTS)
    THEN [ok |-> FALSE, data |-> None, url |-> None, exc |-> last,
          contacted |-> OVERPASS_ENDPOINTS]
    ELSE LET url == OVERPASS_ENDPOINTS[i] IN
         IF h[url] = "ok"
         THEN [ok |-> TRUE, data |-> Payload(url), url |-> url, exc |-> None,
               contacted |-> SubSeq(OVERPASS_ENDPOINTS, 1, i)]
         ELSE query_overpass_from(h, i + 1, Exc(url, h[url]))

query_overpass(h) == query_overpass_from(h, 1, None)

\* str(e) of the exception an endpoint raised
ExcText(e) == e.kind \o " " \o e.url

(***************************************************************************)
(* process_coords: input rows                                              *)
(***************************************************************************)
\* float(text) for the texts of the sample rows; any other text (and None,
\* the value of a missing column) raises
FloatOf ==
    ("451000" :> 451000) @@ ("207000" :> 207000) @@ ("451050" :> 451050)
    @@ ("9999999" :> 9999999)

FloatRaises(text) == text \notin DOMAIN FloatOf

\* str(e) of the exception float(text) raises
FloatErrorText(text) ==
    IF text = None THEN "float() argument must be a string or a real number, not 'NoneType'"
    ELSE "could not convert string to float: '" \o text \o "'"

\* the area of use of epsg:27700, in metres
InDomain(e, n) ==
    /\ 0 <= e /\ e <= 700000
    /\ 0 <= n /\ n <= 1300000

\* transformer.transform(easting, northing): the geographic point of an
\* in-domain input; for an out-of-domain input pyproj (errcheck off) returns
\* either some finite point or inf, and raises nothing
ProjectOutcomes(e, n) ==
    IF InDomain(e, n)
    THEN {[kind |-> "finite", of |-> <<e, n>>]}
    ELSE {[kind |-> "finite", of |-> <<e, n>>], [kind |-> "inf", of |-> <<e, n>>]}

InputRow(job, e, n) == [job |-> job, easting |-> e, northing |-> n]

RowSamples ==
    { InputRow("J1", "451000", "207000"),
      InputRow("J2", "451050", "207000"),
      InputRow("J3", "abc", "207000"),
      InputRow("J4", "451000", None),
      InputRow("J5", "9999999", "207000") }

(***************************************************************************)
(* process_coords: the elements of an Overpass response                    *)
(*                                                                         *)
(* What pyproj, shapely and geopy compute is given with the element: a     *)
(* geometry carries its status (what building and projecting it does), the *)
(* geodesic distance from the dig point to its nearest point (millimetres) *)
(* and that nearest point.  A point is given by its epsg:27700 image in    *)
(* millimetres and by whether transformer_back.transform raises on it.     *)
(***************************************************************************)
Pt(e, n, back) == [e |-> e, n |-> n, back |-> back]
NoPt == Pt(0, 0, "ok")

\* status: "absent" (no "geometry" key), "empty" (no points), "malformed" (a
\* point without lon/lat), "bad_ring" (Polygon/LineString raises),
\* "unprojectable" (transform or nearest_points raises), "ok"
Geom(status, dist, near) == [status |-> status, dist |-> dist, near |-> near]
NoGeom == Geom("absent", 0, NoPt)

\* an element of the response; rel_own and members are what the endpoints
\* hold for the two requests of fetch_relation_geometry_or_member_geoms
Element(type, id, tags, latlon, geometry, center, rel_own, members) ==
    [type |-> type, id |-> id, tags |-> tags, latlon |-> latlon, geometry |-> geometry,
     center |-> center, rel_own |-> rel_own, members |-> members]

Node(id, tags, dist, near) ==
    Element("node", id, tags, TRUE, Geom("ok", dist, near), NoGeom, NoGeom, <<>>)
Way(id, tags, geometry, center) ==
    Element("way", id, tags, FALSE, geometry, center, NoGeom, <<>>)
Relation(id, tags, geometry, center, rel_own, members) ==
    Element("relation", id, tags, FALSE, geometry, center, rel_own, members)

\* round(x, 2) of a non-negative x in millimetres (ties to even)
Round2(x) ==
    LET q == x \div 10
        r == x % 10
    IN IF r < 5 THEN q * 10
       ELSE IF r > 5 THEN (q + 1) * 10
       ELSE IF q % 2 = 0 THEN q * 10 ELSE (q + 1) * 10

\* str() of a float that holds a whole number of centimetres (x in millimetres)
FloatStr(x) ==
    LET whole == x \div 1000
        cents == (x % 1000) \div 10
    IN ToString(whole) \o "." \o
       (IF cents % 10 = 0 THEN ToString(cents \div 10)
        ELSE IF cents < 10 THEN "0" \o ToString(cents)
        ELSE ToString(cents))

\* tags.get("name", "Unnamed asset")
NameOf(tags) == IF HasKey(tags, "name") THEN Get(tags, "name") ELSE n_Unnamed_asset

\* lines 571-585 and 593-608, 618-635: build the geometry, project it, find
\* the nearest point; "raises" stands for either try block raising
LineDistance(g) ==
    IF g.status = "ok" THEN [ok |-> TRUE, dist |-> g.dist, near |-> g.near]
    ELSE [ok |-> FALSE, dist |-> 0, near |-> NoPt]

\* (mutant) the first sequence that yields a distance is kept
RECURSIVE BestOf_first(_, _)
BestOf_first(geoms, best) ==
    IF geoms = <<>> THEN best
    ELSE LET r == LineDistance(Head(geoms)) IN
         BestOf_first(Tail(geoms), IF r.ok /\ ~best.ok THEN r ELSE best)

\* lines 613-638: the minimum over the fetched coordinate sequences; a later
\* sequence replaces the best only when strictly nearer
RECURSIVE BestOf(_, _)
BestOf(geoms, best) ==
    IF geoms = <<>> THEN best
    ELSE LET r == LineDistance(Head(geoms)) IN
         BestOf(Tail(geoms),
                IF r.ok /\ (~best.ok \/ r.dist < best.dist) THEN r ELSE best)

NoDistance == [ok |-> FALSE, dist |-> 0, near |-> NoPt]

\* the member ways' sequences collected by the second request until a
\* malformed one raises (lines 185-191)
RECURSIVE MemberCoords(_)
MemberCoords(members) ==
    IF members = <<>> THEN <<>>
    ELSE IF Head(members).status = "malformed" THEN <<>>
    ELSE IF Head(members).status \in {"absent", "empty"} THEN MemberCoords(Tail(members))
    ELSE <<Head(members)>> \o MemberCoords(Tail(members))

\* (mutant) the member ways are requested whatever the first request returned
fetch_relation_geometry_or_member_geoms_both(el, h1, h2) ==
    LET r1 == query_overpass(h1)
        r2 == query_overpass(h2)
        own == r1.ok /\ el.rel_own.status \notin {"absent", "empty", "malformed"}
    IN [results |-> (IF own THEN <<el.rel_own>> ELSE <<>>)
                    \o (IF r2.ok THEN MemberCoords(el.members) ELSE <<>>),
        requests |-> <<[q |-> "rel_geom", rel |-> el.id, contacted |-> r1.contacted,
                        ok |-> r1.ok],
                       [q |-> "rel_members", rel |-> el.id, contacted |-> r2.contacted,
                        ok |-> r2.ok]>>]

\* fetch_relation_geometry_or_member_geoms under the endpoint health h1 of the
\* first request and h2 of the second: the list returned and the requests made
fetch_relation_geometry_or_member_geoms(el, h1, h2) ==
    LET r1 == query_overpass(h1)
        r2 == query_overpass(h2)
        own == r1.ok /\ el.rel_own.status \notin {"absent", "empty", "malformed"}
    IN IF own
       THEN [results |-> <<el.rel_own>>,
             requests |-> <<[q |-> "rel_geom", rel |-> el.id, contacted |-> r1.contacted,
                             ok |-> TRUE]>>]
       ELSE [results |-> IF r2.ok THEN MemberCoords(el.members) ELSE <<>>,
             requests |-> <<[q |-> "rel_geom", rel |-> el.id, contacted |-> r1.contacted,
                             ok |-> r1.ok],
                            [q |-> "rel_members", rel |-> el.id, contacted |-> r2.contacted,
                             ok |-> r2.ok]>>]

\* (mutant) a way whose ring or line cannot be built ends the run
ResolveDistance_ring_raises(el, h1, h2) ==
    LET inline == LineDistance(el.geometry)
        fetched == fetch_relation_geometry_or_member_geoms(el, h1, h2)
        center(r, reqs) ==
            IF ~r.ok /\ el.center.status = "ok"
            THEN [outcome |-> "done", ok |-> TRUE, dist |-> el.center.dist,
                  near |-> el.center.near, requests |-> reqs]
            ELSE [outcome |-> "done", ok |-> r.ok, dist |-> r.dist, near |-> r.near,
                  requests |-> reqs]
        stop(o) == [outcome |-> o, ok |-> FALSE, dist |-> 0, near |-> NoPt, requests |-> <<>>]
    IN IF el.type = "node" /\ el.latlon
       THEN center(inline, <<>>)
       ELSE IF el.type = "way" /\ el.geometry.status # "absent"
       THEN IF el.geometry.status = "malformed" THEN stop("raise")
            ELSE IF el.geometry.status = "empty" THEN center(NoDistance, <<>>)
            ELSE IF inline.ok THEN center(inline, <<>>)
            ELSE stop("raise")
       ELSE IF el.type = "relation"
       THEN IF el.geometry.status = "malformed" THEN stop("raise")
            ELSE IF el.geometry.status \notin {"absent", "empty"} /\ inline.ok
            THEN center(inline, <<>>)
            ELSE center(BestOf(fetched.results, NoDistance), fetched.requests)
       ELSE center(NoDistance, <<>>)

\* (mutant) the relation-geometry requests are made for every relation
ResolveDistance_always_fetches(el, h1, h2) ==
    LET inline == LineDistance(el.geometry)
        fetched == fetch_relation_geometry_or_member_geoms(el, h1, h2)
        center(r, reqs) ==
            IF ~r.ok /\ el.center.status = "ok"
            THEN [outcome |-> "done", ok |-> TRUE, dist |-> el.center.dist,
                  near |-> el.center.near, requests |-> reqs]
            ELSE [outcome |-> "done", ok |-> r.ok, dist |-> r.dist, near |-> r.near,
                  requests |-> reqs]
        stop(o) == [outcome |-> o, ok |-> FALSE, dist |-> 0, near |-> NoPt, requests |-> <<>>]
    IN IF el.type = "node" /\ el.latlon
       THEN center(inline, <<>>)
       ELSE IF el.type = "way" /\ el.geometry.status # "absent"
       THEN IF el.geometry.status = "malformed" THEN stop("raise")
            ELSE IF el.geometry.status = "empty" THEN center(NoDistance, <<>>)
            ELSE IF inline.ok THEN center(inline, <<>>)
            ELSE stop("continue")
       ELSE IF el.type = "relation"
       THEN IF el.geometry.status = "malformed" THEN stop("raise")
            ELSE IF el.geometry.status \notin {"absent", "empty"} /\ inline.ok
            THEN center(inline, fetched.requests)
            ELSE center(BestOf(fetched.results, NoDistance), fetched.requests)
       ELSE center(NoDistance, <<>>)

\* lines 554-645: the distance and nearest point of one classified element.
\* outcome "raise": an exception leaves process_coords; "continue": the
\* element is dropped inside a try block; "done": the end of the chain is
\* reached, with or without a distance
ResolveDistance(el, h1, h2) ==
    LET inline == LineDistance(el.geometry)
        fetched == fetch_relation_geometry_or_member_geoms(el, h1, h2)
        center(r, reqs) ==
            IF ~r.ok /\ el.center.status = "ok"
            THEN [outcome |-> "done", ok |-> TRUE, dist |-> el.center.dist,
                  near |-> el.center.near, requests |-> reqs]
            ELSE [outcome |-> "done", ok |-> r.ok, dist |-> r.dist, near |-> r.near,
                  requests |-> reqs]
        stop(o) == [outcome |-> o, ok |-> FALSE, dist |-> 0, near |-> NoPt, requests |-> <<>>]
    IN IF el.type = "node" /\ el.latlon
       THEN center(inline, <<>>)
       ELSE IF el.type = "way" /\ el.geometry.status # "absent"
       THEN IF el.geometry.status = "malformed" THEN stop("raise")
            ELSE IF el.geometry.status = "empty" THEN center(NoDistance, <<>>)
            ELSE IF inline.ok THEN center(inline, <<>>)
            ELSE stop("continue")
       ELSE IF el.type = "relation"
       THEN IF el.geometry.status = "malformed" THEN stop("raise")
            ELSE IF el.geometry.status \notin {"absent", "empty"} /\ inline.ok
            THEN center(inline, <<>>)
            ELSE center(BestOf(fetched.results, NoDistance), fetched.requests)
       ELSE center(NoDistance, <<>>)

\* (mutant) every resolved distance is kept
WithinRadius_any(r) == r.ok

\* lines 647-655: a distance was found, it is within the search radius and
\* zone_flags marks a band for it
WithinRadius(r) ==
    /\ r.ok
    /\ r.dist <= Metres(SEARCH_RADIUS)
    /\ Marked(zone_flags(r.dist)) # {}

(***************************************************************************)
(* process_coords: output records                                          *)
(*                                                                         *)
(* A record is a dict over the OUTPUT_FIELDS the modelled operations read  *)
(* (Raw_Tags, the serialized tags, is left out).  The asset coordinates    *)
(* are kept as the text the f-string and the csv writer make of them.      *)
(***************************************************************************)
NO_ASSET_MESSAGE == "No asset found within 100m range"

OutRow(job, ie, in, lat, lon, name, category, dist, flags, type, id, ae, an, server, exc) ==
    ("Job Reference" :> job) @@ ("Input Easting" :> ie) @@ ("Input Northing" :> in)
    @@ ("Converted Lat" :> lat) @@ ("Converted Lon" :> lon)
    @@ ("Asset Name" :> name) @@ ("Category" :> category) @@ ("Distance(m)" :> dist)
    @@ flags
    @@ ("OSM_Type" :> type) @@ ("OSM_ID" :> id)
    @@ ("Asset_Easting" :> ae) @@ ("Asset_Northing" :> an)
    @@ ("Overpass_Server" :> server) @@ ("Exception" :> exc)

\* lat and lon of the projected dig point
Lat(g) == <<"lat", g.kind, g.of>>
Lon(g) == <<"lon", g.kind, g.of>>

\* lines 510-517
InvalidRow(row, e) ==
    OutRow(row.job, row.easting, row.northing, "", "", "", "", "", NoFlags, "", "", "", "",
           "", "Invalid input coords: " \o e)

\* lines 529-536
OverpassErrorRow(row, east, north, g, e) ==
    OutRow(row.job, east, north, Lat(g), Lon(g), "", "", "", NoFlags, "", "", "", "",
           "", "Overpass error: " \o ExcText(e))

\* (mutant) the endpoint used is left out of the record
NoAssetRow_no_server(row, east, north, g, server) ==
    OutRow(row.job, east, north, Lat(g), Lon(g), "", "", "", NoFlags, "", "", "", "",
           "", NO_ASSET_MESSAGE)

\* lines 724-732
NoAssetRow(row, east, north, g, server) ==
    OutRow(row.job, east, north, Lat(g), Lon(g), "", "", "", NoFlags, "", "", "", "",
           server, NO_ASSET_MESSAGE)

\* lines 657-693: the candidate of an element resolved at dist_m, near
Candidate(row, east, north, g, el, category, dist_m, near, server) ==
    LET flags == zone_flags(dist_m)
        projected == near.back = "ok"
        dist_round == Round2(dist_m)
    IN [csv |-> OutRow(row.job, east, north, Lat(g), Lon(g), NameOf(el.tags), category,
                       dist_round, flags, el.type, el.id,
                       IF projected THEN FloatStr(Round2(near.e)) ELSE "",
                       IF projected THEN FloatStr(Round2(near.n)) ELSE "",
                       server, ""),
        plot |-> near, plot_name |-> NameOf(el.tags), plot_dist |-> dist_round]

\* lines 703-709
DedupKey(csv_row) ==
    LET ae == csv_row["Asset_Easting"]
        an == csv_row["Asset_Northing"]
        key == ae \o "_" \o an
    IN IF ae = "" \/ an = "" THEN key \o "_" \o ToString(csv_row["OSM_ID"]) ELSE key

\* (mutant) a key that was output is not remembered
RECURSIVE DedupeLoop_forgets(_, _, _)
DedupeLoop_forgets(items, seen, unique) ==
    IF items = <<>> THEN [seen |-> seen, unique |-> unique]
    ELSE DedupeLoop_forgets(Tail(items), seen, Append(unique, Head(items)))

\* lines 701-714
RECURSIVE DedupeLoop(_, _, _)
DedupeLoop(items, seen, unique) ==
    IF items = <<>> THEN [seen |-> seen, unique |-> unique]
    ELSE LET key == DedupKey(Head(items).csv) IN
         IF key \in seen THEN DedupeLoop(Tail(items), seen, unique)
         ELSE DedupeLoop(Tail(items), seen \cup {key}, Append(unique, Head(items)))

\* fill_dra_docx_and_export, lines 294-299: the Table B column of an item,
\* from the Distance(m) of its csv row
TableBZone(distm) ==
    IF distm < Metres(10) THEN ZONE_A
    ELSE IF Metres(10) <= distm /\ distm <= Metres(25) THEN ZONE_B
    ELSE ZONE_C

\* fill_dra_docx_and_export, lines 276-286: the keys of flags_by_cat, the rows
\* of Table B
flags_by_cat_rows ==
    { "Industrial / Manufacturing", "Gas Holder Stations", "Mining", "Petrol Stations",
      "Sewage Treatment Works", "Sub-Stations", "Waste Sites", "Waste Sites - Scrapyard",
      "Waste Sites - Other" }

\* fill_dra_docx_and_export, lines 301-318: the Table B row an item of
\* category cat marks
TableBRow(cat) ==
    IF cat = "Industrial / Manufacturing" THEN "Industrial / Manufacturing"
    ELSE IF cat = "Gas Holder Stations" THEN "Gas Holder Stations"
    ELSE IF cat = "Mining" THEN "Mining"
    ELSE IF cat = "Petrol Stations" THEN "Petrol Stations"
    ELSE IF cat = "Sewage Treatment Works" THEN "Sewage Treatment Works"
    ELSE IF cat = "Sub-Stations" THEN "Sub-Stations"
    ELSE IF cat = "Waste Sites" THEN "Waste Sites"
    ELSE "Waste Sites"

\* fill_dra_docx_and_export, lines 324-331: the Table C risk
TableCRisk(items) ==
    IF \E i \in DOMAIN items : items[i].csv["Distance(m)"] < Metres(10) THEN "High"
    ELSE IF \E i \in DOMAIN items :
                /\ Metres(10) <= items[i].csv["Distance(m)"]
                /\ items[i].csv["Distance(m)"] <= Metres(25)
    THEN "Medium"
    ELSE "Low"

\* fill_dra_docx_and_export, lines 289-331: what is computed from the
\* matched items before the template is opened
FillDocx(items) ==
    [items |-> items,
     zone |-> [i \in DOMAIN items |-> TableBZone(items[i].csv["Distance(m)"])],
     row |-> [i \in DOMAIN items |-> TableBRow(items[i].csv["Category"])],
     risk |-> TableCRisk(items)]

\* fill_dra_docx_and_export was not called
NoDocs == [items |-> <<>>, zone |-> <<>>, row |-> <<>>, risk |-> None]

\* lines 735-744
AssetsForMap(unique) ==
    [i \in DOMAIN unique |->
        [point |-> unique[i].plot, name |-> unique[i].plot_name, dist |-> unique[i].plot_dist]]

(***************************************************************************)
(* process_coords: sample elements                                         *)
(***************************************************************************)
FuelNode ==
    Node(101, << <<"amenity", s_fuel>> >>, 8400, Pt(451008400, 207000000, "ok"))
\* resolves to the rounded asset coordinates of FuelNode
SubstationWay ==
    Way(102, << <<"power", s_substation>> >>,
        Geom("ok", 8402, Pt(451008402, 207000001, "ok")), NoGeom)
IndustrialWay ==
    Way(103, << <<"landuse", s_industrial>>, <<"name", n_Old_Factory>> >>,
        Geom("ok", 32700, Pt(451032700, 207000000, "ok")), NoGeom)
\* a node and a way with the same numeric id whose nearest points
\* transformer_back cannot project
UnprojectedNode ==
    Node(5, << <<"amenity", s_fuel>> >>, 20000, Pt(0, 0, "raises"))
UnprojectedWay ==
    Way(5, << <<"landuse", s_quarry>> >>, Geom("ok", 30000, Pt(0, 0, "raises")), NoGeom)
\* no inline geometry, no geometry of its own, member ways at 60 m and 45 m
QuarryRelation ==
    Relation(7, << <<"landuse", s_quarry>> >>, NoGeom, NoGeom, NoGeom,
             << Geom("ok", 60000, Pt(451060000, 207000000, "ok")),
                Geom("ok", 45000, Pt(451000000, 207045000, "ok")) >>)
\* member ways at 60 m, 45 m and 70 m among one that is no valid ring and
\* one without points
MixedRelation ==
    Relation(8, << <<"landuse", s_landfill>> >>, NoGeom, NoGeom, NoGeom,
             << Geom("ok", 60000, Pt(451060000, 207000000, "ok")),
                Geom("bad_ring", 0, NoPt),
                Geom("ok", 45000, Pt(451000000, 207045000, "ok")),
                Geom("empty", 0, NoPt),
                Geom("ok", 70000, Pt(451070000, 207000000, "ok")) >>)
\* an inline geometry that yields a distance
InlineRelation ==
    Relation(9, << <<"landuse", s_industrial>> >>,
             Geom("ok", 12000, Pt(451012000, 207000000, "ok")), NoGeom,
             Geom("ok", 12000, Pt(451012000, 207000000, "ok")), <<>>)
\* an inline geometry that is no valid ring; the relation's own geometry as
\* the first request returns it yields 55 m; a center at 90 m
BrokenInlineRelation ==
    Relation(10, << <<"power", s_substation>> >>, Geom("bad_ring", 0, NoPt),
             Geom("ok", 90000, Pt(451090000, 207000000, "ok")),
             Geom("ok", 55000, Pt(451055000, 207000000, "ok")),
             << Geom("ok", 80000, Pt(451080000, 207000000, "ok")) >>)
\* 9.996 m: reported as 10.0
NearNode ==
    Node(112, << <<"man_made", s_gasometer>> >>, 9996, Pt(451009996, 207000000, "ok"))
CafeNode ==
    Node(108, << <<"amenity", s_cafe>>, <<"name", n_Corner_Cafe>> >>, 5000,
         Pt(451005000, 207000000, "ok"))
FarWay ==
    Way(109, << <<"landuse", s_landfill>> >>,
        Geom("ok", 100001, Pt(451100001, 207000000, "ok")), NoGeom)
MalformedWay ==
    Way(110, << <<"power", s_plant>> >>, Geom("malformed", 0, NoPt), NoGeom)
BadRingWay ==
    Way(111, << <<"man_made", s_gasometer>> >>, Geom("bad_ring", 0, NoPt),
        Geom("ok", 15000, Pt(451015000, 207000000, "ok")))

\* exactly 10 m
TenMetreNode ==
    Node(113, << <<"man_made", s_gasometer>> >>, 10000, Pt(451010000, 207000000, "ok"))
PowerPlantNode ==
    Node(114, << <<"power", s_plant>> >>, 5000, Pt(451005000, 207000000, "ok"))
LandfillWay ==
    Way(115, << <<"landuse", s_landfill>> >>,
        Geom("ok", 18000, Pt(451018000, 207000000, "ok")), NoGeom)

BigPool ==
    { FuelNode, SubstationWay, UnprojectedNode, UnprojectedWay,
      QuarryRelation, CafeNode, FarWay, MalformedWay, BadRingWay }

SmallPool == { FuelNode, MalformedWay }

RelationPool == { QuarryRelation, MixedRelation, InlineRelation, BrokenInlineRelation, NearNode }

WordPool ==
    { FuelNode, TenMetreNode, PowerPlantNode, LandfillWay, IndustrialWay, InlineRelation }

MaxElements == 2
MaxRows == 2

\* the element lists a response can hold: distinct elements of the pool
Responses(p) ==
    UNION { {els \in [1..n -> p] : \A i, j \in 1..n : i # j => els[i] # els[j]}
            : n \in 0..MaxElements }

\* the elements the endpoints hold around the dig points of the run
Pool ==
    IF scenario = "row" THEN BigPool
    ELSE IF scenario = "relation" THEN RelationPool
    ELSE IF scenario = "word" THEN WordPool
    ELSE SmallPool

Health(o1, o2, o3) ==
    (OVERPASS_ENDPOINTS[1] :> o1) @@ (OVERPASS_ENDPOINTS[2] :> o2)
    @@ (OVERPASS_ENDPOINTS[3] :> o3)

AllOk == Health("ok", "ok", "ok")

\* the endpoint health tried for a query of process_coords: each endpoint in
\* turn the first to answer, and none answering, with each kind of last error
HealthSamples ==
    { AllOk, Health("timeout", "ok", "ok"), Health("http", "badjson", "ok"),
      Health("timeout", "http", "badjson"), Health("badjson", "timeout", "http"),
      Health("http", "badjson", "timeout") }

\* the endpoint health tried for each request of
\* fetch_relation_geometry_or_member_geoms: the first endpoint answers, the
\* first fails and the second answers, none answers
SecondaryHealth ==
    { AllOk, Health("timeout", "ok", "ok"), Health("timeout", "http", "badjson") }

\* the endpoints reject a query for a non-finite point
HealthAt(g) ==
    IF g.kind = "inf" THEN {Health("http", "http", "http")} ELSE HealthSamples

\* export_map_static saves the map or raises (savefig, an unusable file name);
\* it cannot draw around a non-finite point
MapOutcomes(g) == IF g.kind = "inf" THEN {"raises"} ELSE {"saved", "raises"}

(***************************************************************************)
(* process_coords                                                          *)
(***************************************************************************)
RowsIdle ==
    /\ rows = <<>> /\ template_docx = FALSE /\ scenario = "none" /\ pc = "idle" /\ idx = 1
    /\ out = <<>> /\ written = <<>> /\ requests = <<>>
    /\ easting = None /\ northing = None /\ geo = None /\ used_server = None
    /\ elements = <<>> /\ ei = 1
    /\ matched_items_all = <<>> /\ matched_items_unique = <<>> /\ seen_coords = {}
    /\ map_assets = None /\ doc_items = NoDocs
    /\ word_saves = {}

\* lines 488-501: the csv is read, the header written
RowsInit(inputs, templates, sc) ==
    /\ rows \in inputs /\ template_docx \in templates /\ scenario = sc
    /\ pc = "row" /\ idx = 1
    /\ out = <<>> /\ written = <<>> /\ requests = <<>>
    /\ easting = None /\ northing = None /\ geo = None /\ used_server = None
    /\ elements = <<>> /\ ei = 1
    /\ matched_items_all = <<>> /\ matched_items_unique = <<>> /\ seen_coords = {}
    /\ map_assets = None /\ doc_items = NoDocs
    /\ word_saves = {}

Write(recs) ==
    /\ out' = out \o recs
    /\ written' = written \o [i \in DOMAIN recs |-> idx]

\* "continue", or the end of the loop body: the next row
NextRow == idx' = idx + 1 /\ pc' = "row"

\* lines 504-518: float() raises, the error record is written
RowInvalid ==
    /\ pc = "row" /\ idx <= Len(rows)
    /\ LET row == rows[idx] IN
        /\ FloatRaises(row.easting) \/ FloatRaises(row.northing)
        /\ easting' = IF FloatRaises(row.easting) THEN easting ELSE FloatOf[row.easting]
        /\ Write(<<InvalidRow(row, FloatErrorText(IF FloatRaises(row.easting)
                                                  THEN row.easting ELSE row.northing))>>)
    /\ NextRow
    /\ UNCHANGED <<rows, template_docx, scenario, requests, northing, geo, used_server,
                   elements, ei, matched_items_all, matched_items_unique, seen_coords,
                   map_assets, doc_items, notRows>>

\* lines 504-521: both values parse, the dig point is projected
RowProject ==
    /\ pc = "row" /\ idx <= Len(rows)
    /\ LET row == rows[idx] IN
        /\ ~FloatRaises(row.easting) /\ ~FloatRaises(row.northing)
        /\ easting' = FloatOf[row.easting]
        /\ northing' = FloatOf[row.northing]
        /\ geo' \in ProjectOutcomes(FloatOf[row.easting], FloatOf[row.northing])
    /\ pc' = "projected"
    /\ UNCHANGED <<rows, template_docx, scenario, idx, out, written, requests, used_server,
                   elements, ei, matched_items_all, matched_items_unique, seen_coords,
                   map_assets, doc_items, notRows>>

\* lines 524-539: query_osm raises, the error record is written, the error
\* map exported
QueryFails ==
    /\ pc = "projected"
    /\ \E h \in HealthAt(geo), m \in MapOutcomes(geo) :
        LET r == query_overpass(h) IN
        /\ ~r.ok
        /\ requests' = Append(requests, [row |-> idx, q |-> "primary", rel |-> 0,
                                          contacted |-> r.contacted, ok |-> FALSE])
        /\ Write(<<OverpassErrorRow(rows[idx], easting, northing, geo, r.exc)>>)
        /\ map_assets' = None
        /\ IF m = "saved" THEN NextRow ELSE (pc' = "raised" /\ idx' = idx)
    /\ UNCHANGED <<rows, template_docx, scenario, easting, northing, geo, used_server,
                   elements, ei, matched_items_all, matched_items_unique, seen_coords,
                   doc_items, notRows>>

\* lines 524-526, 541-545: query_osm returns the payload of the first
\* endpoint that answers
QueryOk ==
    /\ pc = "projected"
    /\ \E h \in HealthAt(geo), els \in Responses(Pool) :
        LET r == query_overpass(h) IN
        /\ r.ok
        /\ requests' = Append(requests, [row |-> idx, q |-> "primary", rel |-> 0,
                                          contacted |-> r.contacted, ok |-> TRUE])
        /\ used_server' = r.url
        /\ elements' = els
    /\ ei' = 1
    /\ matched_items_all' = <<>>
    /\ matched_items_unique' = <<>>
    /\ pc' = "elements"
    /\ UNCHANGED <<rows, template_docx, scenario, idx, out, written, easting, northing, geo,
                   seen_coords, map_assets, doc_items, notRows>>

\* lines 547-698: one iteration of "for el in elements"
ProcessElement ==
    /\ pc = "elements" /\ ei <= Len(elements)
    /\ LET el == elements[ei]
           category == map_category_by_tags(el.tags, NameOf(el.tags))
       IN IF category = None
          THEN ei' = ei + 1 /\ UNCHANGED <<pc, requests, matched_items_all>>
          ELSE \E h1 \in (IF el.type = "relation" THEN SecondaryHealth ELSE {AllOk}),
                  h2 \in (IF el.type = "relation" THEN SecondaryHealth ELSE {AllOk}) :
               LET r == ResolveDistance(el, h1, h2) IN
               /\ requests' = requests \o
                     [i \in DOMAIN r.requests |->
                        [row |-> idx, q |-> r.requests[i].q, rel |-> r.requests[i].rel,
                         contacted |-> r.requests[i].contacted, ok |-> r.requests[i].ok]]
               /\ IF r.outcome = "raise"
                  THEN pc' = "raised" /\ UNCHANGED <<ei, matched_items_all>>
                  ELSE /\ ei' = ei + 1
                       /\ pc' = pc
                       /\ matched_items_all' =
                            IF r.outcome = "done" /\ WithinRadius(r)
                            THEN Append(matched_items_all,
                                        Candidate(rows[idx], easting, northing, geo, el,
                                                  category, r.dist, r.near, used_server))
                            ELSE matched_items_all
    /\ UNCHANGED <<rows, template_docx, scenario, idx, out, written, easting, northing, geo,
                   used_server, elements, matched_items_unique, seen_coords, map_assets,
                   doc_items, notRows>>

\* (mutant) the documents are filled from the unique list
DedupeAndWrite_docs_from_unique ==
    /\ pc = "elements" /\ ei > Len(elements)
    /\ LET d == DedupeLoop(matched_items_all, {}, matched_items_unique) IN
        /\ seen_coords' = d.seen
        /\ matched_items_unique' = d.unique
        /\ IF d.unique # <<>>
           THEN Write([i \in DOMAIN d.unique |-> d.unique[i].csv])
           ELSE Write(<<NoAssetRow(rows[idx], easting, northing, geo, used_server)>>)
        /\ map_assets' = AssetsForMap(d.unique)
        /\ \E m \in MapOutcomes(geo) :
            IF m = "saved"
            THEN /\ NextRow
                 /\ doc_items' = IF template_docx THEN FillDocx(d.unique)
                                 ELSE doc_items
            ELSE /\ pc' = "raised" /\ idx' = idx
                 /\ doc_items' = doc_items
    /\ UNCHANGED <<rows, template_docx, scenario, requests, easting, northing, geo, used_server,
                   elements, ei, matched_items_all, notRows>>

\* (mutant) the keys seen for earlier rows are kept
DedupeAndWrite_keeps_seen ==
    /\ pc = "elements" /\ ei > Len(elements)
    /\ LET d == DedupeLoop(matched_items_all, seen_coords, matched_items_unique) IN
        /\ seen_coords' = d.seen
        /\ matched_items_unique' = d.unique
        /\ IF d.unique # <<>>
           THEN Write([i \in DOMAIN d.unique |-> d.unique[i].csv])
           ELSE Write(<<NoAssetRow(rows[idx], easting, northing, geo, used_server)>>)
        /\ map_assets' = AssetsForMap(d.unique)
        /\ \E m \in MapOutcomes(geo) :
            IF m = "saved"
            THEN /\ NextRow
                 /\ doc_items' = IF template_docx THEN FillDocx(matched_items_all)
                                 ELSE doc_items
            ELSE /\ pc' = "raised" /\ idx' = idx
                 /\ doc_items' = doc_items
    /\ UNCHANGED <<rows, template_docx, scenario, requests, easting, northing, geo, used_server,
                   elements, ei, matched_items_all, notRows>>

\* lines 700-764: dedupe, write the csv rows, export the map, fill the
\* documents (whose failure is caught)
DedupeAndWrite ==
    /\ pc = "elements" /\ ei > Len(elements)
    /\ LET d == DedupeLoop(matched_items_all, {}, matched_items_unique) IN
        /\ seen_coords' = d.seen
        /\ matched_items_unique' = d.unique
        /\ IF d.unique # <<>>
           THEN Write([i \in DOMAIN d.unique |-> d.unique[i].csv])
           ELSE Write(<<NoAssetRow(rows[idx], easting, northing, geo, used_server)>>)
        /\ map_assets' = AssetsForMap(d.unique)
        /\ \E m \in MapOutcomes(geo) :
            IF m = "saved"
            THEN /\ NextRow
                 /\ doc_items' = IF template_docx THEN FillDocx(matched_items_all)
                                 ELSE doc_items
            ELSE /\ pc' = "raised" /\ idx' = idx
                 /\ doc_items' = doc_items
    /\ UNCHANGED <<rows, template_docx, scenario, requests, easting, northing, geo, used_server,
                   elements, ei, matched_items_all, notRows>>

\* lines 766-769: every row was processed
Finish ==
    /\ pc = "row" /\ idx > Len(rows)
    /\ pc' = "done"
    /\ UNCHANGED <<rows, template_docx, scenario, idx, out, written, requests, easting,
                   northing, geo, used_server, elements, ei, matched_items_all,
                   matched_items_unique, seen_coords, map_assets, doc_items, notRows>>

(***************************************************************************)
(* CreatingWordFile                                                        *)
(*                                                                         *)
(* The output csv is read back with pandas: a field is the text the csv    *)
(* writer made of it, and a column whose texts all parse is a column of    *)
(* floats.                                                                 *)
(***************************************************************************)
\* lines 778-788 (the two waste site keys are spelled with a dash that is
\* not ASCII in the source)
category_map ==
    ("Industrial / Manufacturing" :> "Industrial")
    @@ ("Gas holder stations" :> "Gas")
    @@ ("Mining (coal, metalliferous)" :> "Mining")
    @@ ("Petrol stations / Garages" :> "Petrol")
    @@ ("Sewage Treatment Works" :> "Sewage")
    @@ ("Sub-Stations" :> "Sub_Stat")
    @@ ("Waste Site - Landfill & Treatment / Disposal" :> "Landfill")
    @@ ("Waste Site - Scrapyard / Metal Recycling" :> "Scrapyard")
    @@ ("Waste Sites" :> "Other")

Sites == {category_map[c] : c \in DOMAIN category_map}

\* the Exception texts of the records whose input coordinates are floats
\* (lines 529-536, 716-732); the records of lines 510-517 carry the texts of
\* the input row
FloatCoordTexts ==
    {"", NO_ASSET_MESSAGE} \cup
    {"Overpass error: " \o ExcText(Exc(u, k)) : u \in Urls, k \in Failures}

\* the text the csv writer makes of the field of a record: repr of a whole
\* float, the empty text for None, a text as it is
CsvCoord(r, field) ==
    IF r["Exception"] \in FloatCoordTexts THEN ToString(r[field]) \o ".0"
    ELSE IF r[field] = None THEN ""
    ELSE r[field]

\* the texts pandas parses as a float, with the text of that float
FloatTexts ==
    [t \in DOMAIN FloatOf \cup {x \o ".0" : x \in DOMAIN FloatOf} |->
        IF t \in DOMAIN FloatOf THEN t \o ".0" ELSE t]

\* line 800, pd.read_csv: the values of a column of the csv; the empty text
\* is NaN, the others are floats when all of them parse and texts otherwise
ReadColumn(recs, field) ==
    LET texts == [k \in DOMAIN recs |-> CsvCoord(recs[k], field)]
        numeric == \A k \in DOMAIN texts : texts[k] = "" \/ texts[k] \in DOMAIN FloatTexts
    IN [k \in DOMAIN texts |->
            IF texts[k] = "" THEN "NaN"
            ELSE IF numeric THEN FloatTexts[texts[k]] ELSE texts[k]]

\* line 803, df.groupby(["Input Easting", "Input Northing"]): the records of
\* each key, in order; a record with a NaN in its key is in no group
Groups(recs) ==
    LET e == ReadColumn(recs, "Input Easting")
        n == ReadColumn(recs, "Input Northing")
        keys == {<<e[k], n[k]>> : k \in {j \in DOMAIN recs : e[j] # "NaN" /\ n[j] # "NaN"}}
    IN [key \in keys |-> {k \in DOMAIN recs : <<e[k], n[k]>> = key}]

\* lines 819-823, group.groupby("Category")["Distance(m)"].min(): an empty
\* Category is NaN and in no group
category_min_dist(recs, members) ==
    LET cats == {recs[k]["Category"] : k \in members} \ {""}
    IN [c \in cats |->
            LET ds == {recs[k]["Distance(m)"] : k \in {j \in members : recs[j]["Category"] = c}}
            IN CHOOSE d \in ds : \A x \in ds : d <= x]

\* lines 835-854: the band of a minimum distance
WordBand(distance) ==
    IF distance <= Metres(10) THEN "<10m"
    ELSE IF distance <= Metres(25) THEN "10-25m"
    ELSE ">25m"

\* lines 816-854: the answers of one group.  The categories are visited in
\* the sorted order of groupby, "Waste Sites" after the two other waste site
\* keys, so that its band is the last written to Landfill and Scrapyard.
site_answers(mins) ==
    [site \in Sites |->
        IF "Waste Sites" \in DOMAIN mins /\ site \in {"Other", "Landfill", "Scrapyard"}
        THEN WordBand(mins["Waste Sites"])
        ELSE IF \E c \in DOMAIN mins \cap DOMAIN category_map : category_map[c] = site
        THEN WordBand(mins[CHOOSE c \in DOMAIN mins \cap DOMAIN category_map :
                                category_map[c] = site])
        ELSE "No"]

\* lines 872-878
risk_level(answers) ==
    IF \E site \in DOMAIN answers : answers[site] = "<10m" THEN "HighRisk"
    ELSE IF \E site \in DOMAIN answers : answers[site] = "10-25m" THEN "MediumRisk"
    ELSE "LowRisk"

\* lines 805-901: the document saved for one group
WordDoc(recs, key, members) ==
    LET answers == site_answers(category_min_dist(recs, members))
        first == CHOOSE k \in members : \A j \in members : k <= j
    IN [easting |-> key[1], northing |-> key[2], members |-> members,
        path |-> "DRA1_" \o recs[first]["Job Reference"] \o ".docx",
        site_answers |-> answers, risk_level |-> risk_level(answers)]

\* lines 926-928, 773-906: process_coords returned, CreatingWordFile reads
\* the csv and saves one document per coordinate group; starting Word or
\* opening the template may raise
CreatingWordFile ==
    /\ pc = "done"
    /\ \E word \in {"ok", "raises"} :
        IF word = "ok"
        THEN /\ word_saves' = {WordDoc(out, key, Groups(out)[key]) : key \in DOMAIN Groups(out)}
             /\ pc' = "word_done"
        ELSE /\ word_saves' = word_saves
             /\ pc' = "word_raised"
    /\ UNCHANGED <<rows, template_docx, scenario, idx, out, written, requests, easting,
                   northing, geo, used_server, elements, ei, matched_items_all,
                   matched_items_unique, seen_coords, map_assets, doc_items,
                   zoneVars, overpassVars, classifyVars, appVars>>

\* lines 912-930: process_coords, then CreatingWordFile
ProcessNext ==
    \/ RowInvalid \/ RowProject \/ QueryFails \/ QueryOk
    \/ ProcessElement \/ DedupeAndWrite \/ Finish \/ CreatingWordFile

(***************************************************************************)
(* app.py: the script run started by "Run DRA Processing"                  *)
(*                                                                         *)
(* process_coords is taken by its outcome: it returns; it raises before    *)
(* the output csv is opened (the upload cannot be decoded); it raises      *)
(* after (a map cannot be saved), leaving the records written so far; or   *)
(* it raises SystemExit (no Easting/Northing columns), which is no         *)
(* Exception and ends the script run.                                      *)
(***************************************************************************)
MaxRuns == 2

\* what can be uploaded: nothing, a csv with the columns, a file that is not
\* utf-8, a csv without the columns
Uploads == {None, "good", "undecodable", "no_columns"}

\* DRA_Distance_to_Boundary_v17.py, lines 486-495 and 734-755: the outcomes
\* of process_coords on an upload
ProcessOutcomes(upload) ==
    IF upload = "good" THEN {"returned", "raised_late"}
    ELSE IF upload = "undecodable" THEN {"raised_early"}
    ELSE {"system_exit"}

\* DRA_Distance_to_Boundary_v17.py, lines 61-66: the columns process_coords
\* writes
OUTPUT_FIELDS ==
    { "Job Reference", "Input Easting", "Input Northing", "Converted Lat", "Converted Lon",
      "Asset Name", "Category", "Distance(m)", ZONE_A, ZONE_B, ZONE_C, ZONE_D,
      "OSM_Type", "OSM_ID", "Asset_Easting", "Asset_Northing", "Raw_Tags",
      "Overpass_Server", "Exception" }

NoFile == [exists |-> FALSE, columns |-> {}, by |-> 0, complete |-> FALSE]

\* the csv process_coords of run r leaves at output_csv_path
WrittenBy(r, complete) ==
    [exists |-> TRUE, columns |-> OUTPUT_FIELDS, by |-> r, complete |-> complete]

\* app.py, lines 144-146: rename, then AssetID
RenameColumns(columns) ==
    LET renamed ==
            {IF c = "Converted Lat" THEN "Latitude"
             ELSE IF c = "Converted Lon" THEN "Longitude"
             ELSE IF c = "Asset Name" THEN "Name"
             ELSE c : c \in columns}
    IN IF "AssetID" \notin renamed THEN renamed \cup {"AssetID"} ELSE renamed

\* app.py, lines 150-151
missing_columns(columns) == {"AssetID", "Latitude", "Longitude", "Name"} \ columns

Log(event) == app_log' = Append(app_log, [run |-> run, event |-> event])

AppIdle ==
    /\ apc = "off" /\ run = 0 /\ input_csv_file = None /\ output_csv = NoFile
    /\ processed = FALSE /\ word_thread = "none" /\ word_dir = {}
    /\ word_files = None /\ map_files = None /\ app_log = <<>>

\* app.py, lines 69-71: a new session, nothing at output_csv_path
AppInit ==
    /\ apc = "idle" /\ run = 0 /\ input_csv_file = None /\ output_csv = NoFile
    /\ processed = FALSE /\ word_thread = "none" /\ word_dir = {}
    /\ word_files = None /\ map_files = None /\ app_log = <<>>

\* app.py, lines 85-96: the button is clicked; without an upload the run
\* only reports the error
RunButton ==
    /\ apc = "idle" /\ run < MaxRuns
    /\ run' = run + 1
    /\ \E upload \in Uploads :
        /\ input_csv_file' = upload
        /\ apc' = IF upload = None THEN "idle" ELSE "csv"
    /\ word_thread' = "none"
    /\ app_log' = Append(app_log, [run |-> run + 1, event |-> "click"])
    /\ UNCHANGED <<output_csv, processed, word_dir, word_files, map_files, notApp>>

\* app.py, lines 98-131: process_coords in its try block
ProcessCoords ==
    /\ apc = "csv"
    /\ \E outcome \in ProcessOutcomes(input_csv_file) :
        /\ Log(outcome)
        /\ output_csv' =
              IF outcome = "returned" THEN WrittenBy(run, TRUE)
              ELSE IF outcome = "raised_late" THEN WrittenBy(run, FALSE)
              ELSE output_csv
        /\ processed' = IF outcome = "returned" THEN TRUE ELSE processed
        /\ apc' = IF outcome = "system_exit" THEN "idle" ELSE "word"
    /\ UNCHANGED <<run, input_csv_file, word_thread, word_dir, word_files, map_files, notApp>>

\* app.py, lines 138-164 and 170-171: read the csv at output_csv_path (which
\* raises when there is none), rename, rewrite, check the columns, start the
\* thread
WordSection ==
    /\ apc = "word"
    /\ IF ~output_csv.exists
       THEN /\ apc' = "map"
            /\ Log("word_failed")
            /\ UNCHANGED <<output_csv, word_thread>>
       ELSE LET columns == RenameColumns(output_csv.columns) IN
            /\ output_csv' = [output_csv EXCEPT !.columns = columns]
            /\ IF missing_columns(columns) # {}
               THEN /\ apc' = "map"
                    /\ Log("missing_columns")
                    /\ word_thread' = word_thread
               ELSE /\ apc' = "thread"
                    /\ Log("thread_start")
                    /\ word_thread' = "running"
    /\ UNCHANGED <<run, input_csv_file, processed, word_dir, word_files, map_files, notApp>>

\* app.py, lines 74-82: the thread runs CreatingWordFile, which saves
\* documents or not, or raises, which is caught
create_word_file_thread ==
    /\ apc = "thread" /\ word_thread = "running"
    /\ \E saved \in BOOLEAN :
        word_dir' = IF saved THEN word_dir \cup {run} ELSE word_dir
    /\ word_thread' = "finished"
    /\ Log("thread_end")
    /\ UNCHANGED <<apc, run, input_csv_file, output_csv, processed, word_files, map_files,
                   notApp>>

\* app.py, line 165: word_thread.join() returns once the thread has ended
JoinThread ==
    /\ apc = "thread" /\ word_thread = "finished"
    /\ word_thread' = "joined"
    /\ apc' = "list"
    /\ Log("join")
    /\ UNCHANGED <<run, input_csv_file, output_csv, processed, word_dir, word_files,
                   map_files, notApp>>

\* app.py, lines 167-168
ListWordFiles ==
    /\ apc = "list"
    /\ word_files' = word_dir
    /\ apc' = "map"
    /\ Log("list_word_files")
    /\ UNCHANGED <<run, input_csv_file, output_csv, processed, word_thread, word_dir,
                   map_files, notApp>>

\* app.py, lines 174-188
MapSection ==
    /\ apc = "map"
    /\ map_files' = "listed"
    /\ apc' = "idle"
    /\ Log("map")
    /\ UNCHANGED <<run, input_csv_file, output_csv, processed, word_thread, word_dir,
                   word_files, notApp>>

AppNext ==
    \/ RunButton \/ ProcessCoords \/ WordSection \/ create_word_file_thread
    \/ JoinThread \/ ListWordFiles \/ MapSection

(***************************************************************************)
(* Claims about zone_flags (SpecZone)                                      *)
(***************************************************************************)
\* the band of the claims' wording that contains d
BandOf(d) ==
    IF d < Metres(10) THEN ZONE_A
    ELSE IF d <= Metres(25) THEN ZONE_B
    ELSE IF d <= Metres(50) THEN ZONE_C
    ELSE ZONE_D

\* C1: for every distance d with 0 <= d <= 100, zone_flags(d) sets exactly one
\* of the four flags, the one of the band containing d: '<10m' iff d < 10,
\* '10-25m' iff 10 <= d <= 25, '>25-50m' iff 25 < d <= 50, '>50-100m' iff
\* 50 < d <= 100.
C1_ExactlyOneBand ==
    (zpc = "ret" /\ 0 <= zd /\ zd <= Metres(100)) =>
        /\ Cardinality(Marked(zflags)) = 1
        /\ Marked(zflags) = {BandOf(zd)}
        /\ (zd = Metres(10) \/ zd = Metres(25)) => zflags[ZONE_B] = "X"
        /\ zd = Metres(50) => zflags[ZONE_C] = "X"
        /\ zd = Metres(100) => zflags[ZONE_D] = "X"

\* C1 witness: the call returned for d = 10 m exactly, flagged '10-25m'
C1_Witness == zpc = "ret" /\ zd = Metres(10) /\ Marked(zflags) = {ZONE_B}

\* C2 (as stated): for every distance d, zone_flags(d) sets no flag at all if
\* and only if d > 100 or d < 0.
C2_NoFlagIffOutside ==
    zpc = "ret" => (Marked(zflags) = {} <=> (zd > Metres(100) \/ zd < 0))

\* C2 (amended): for every distance d, zone_flags(d) sets no flag at all if
\* and only if d > 100; a negative d sets the '<10m' flag and no other.
C2_NoFlagIffBeyondRadius ==
    zpc = "ret" =>
        /\ Marked(zflags) = {} <=> zd > Metres(100)
        /\ zd < 0 => Marked(zflags) = {ZONE_A}

\* C2 witness: the call returned no flag for a distance just beyond 100 m
C2_Witness == zpc = "ret" /\ zd = Metres(100) + 1 /\ Marked(zflags) = {}

(***************************************************************************)
(* Claims about query_overpass (SpecOverpass)                              *)
(***************************************************************************)
\* position in OVERPASS_ENDPOINTS of the first endpoint that answers, or
\* one past the end when none does
FirstOk ==
    LET ok == {i \in DOMAIN OVERPASS_ENDPOINTS : health[OVERPASS_ENDPOINTS[i]] = "ok"}
    IN IF ok = {} THEN Len(OVERPASS_ENDPOINTS) + 1
       ELSE CHOOSE i \in ok : \A j \in ok : i <= j

\* C3: query_overpass contacts the endpoints strictly in list order, each at
\* most once, stops at the first endpoint that succeeds and never contacts a
\* later one; the returned payload and 'endpoint used' are those of that
\* first succeeding endpoint.
C3_OrderedFailover ==
    /\ Len(contacted) <= Len(OVERPASS_ENDPOINTS)
    /\ contacted = SubSeq(OVERPASS_ENDPOINTS, 1, Len(contacted))
    /\ Len(contacted) <= FirstOk
    /\ qpc = "returned" =>
        /\ Len(contacted) = FirstOk
        /\ qret = <<Payload(OVERPASS_ENDPOINTS[FirstOk]), OVERPASS_ENDPOINTS[FirstOk]>>

\* C3 witness: endpoints 1 and 2 failed, endpoint 3 answered and is reported
C3_Witness ==
    /\ qpc = "returned"
    /\ health[OVERPASS_ENDPOINTS[1]] = "timeout"
    /\ health[OVERPASS_ENDPOINTS[2]] = "http"
    /\ contacted = OVERPASS_ENDPOINTS
    /\ qret[2] = OVERPASS_ENDPOINTS[3]

\* C4: query_overpass fails if and only if every endpoint in the list has
\* failed, and the error it raises is the error of the last endpoint tried.
C4_RaisesLastError ==
    LET n == Len(OVERPASS_ENDPOINTS) IN
    /\ qpc = "raised" =>
        /\ \A u \in Urls : health[u] \in Failures
        /\ contacted = OVERPASS_ENDPOINTS
        /\ qret = Exc(OVERPASS_ENDPOINTS[n], health[OVERPASS_ENDPOINTS[n]])
    /\ qpc = "returned" => \E u \in Urls : health[u] = "ok"
    /\ (qpc = "loop" /\ qi > n) => \A u \in Urls : health[u] \in Failures

\* C4 witness: all three failed in different ways, the last one's error is raised
C4_Witness ==
    /\ qpc = "raised"
    /\ health[OVERPASS_ENDPOINTS[1]] = "timeout"
    /\ health[OVERPASS_ENDPOINTS[3]] = "badjson"
    /\ qret.kind = "badjson"

(***************************************************************************)
(* Claims about map_category_by_tags (SpecClassify)                        *)
(***************************************************************************)
\* the category of the first rule whose structured-tag condition (a test of
\* tags.get(key) or of a key's presence, not of the text) the tags satisfy
StructuredCategory(tags) ==
    IF Get(tags, "landuse") = s_landfill \/ Get(tags, "leisure") = s_dump
       \/ Get(tags, "waste") = s_landfill
    THEN "Waste Sites"
    ELSE IF Get(tags, "landuse") = s_scrap_yard \/ Truthy(Get(tags, "recycling"))
    THEN "Waste Sites"
    ELSE IF Get(tags, "man_made") = s_gasometer THEN "Gas holder stations"
    ELSE IF Get(tags, "amenity") = s_fuel THEN "Petrol stations / Garages"
    ELSE IF Get(tags, "power") = s_substation THEN "Sub-Stations"
    ELSE IF Get(tags, "man_made") \in {s_wastewater_plant, s_sewage_works}
    THEN "Sewage Treatment Works"
    ELSE IF Get(tags, "landuse") = s_industrial \/ Get(tags, "industrial") = s_yes
    THEN "Industrial / Manufacturing"
    ELSE IF Get(tags, "landuse") = s_quarry \/ Get(tags, "mining") = s_yes
    THEN "Mining (coal, metalliferous)"
    ELSE IF Get(tags, "power") = s_plant \/ HasKey(tags, "plant:source")
    THEN "Power Plants"
    ELSE None

\* C5: every substring-only rule is evaluated after all structured-tag rules:
\* for every tag set that satisfies a structured-tag rule, the category
\* returned is the one of the first structured-tag rule it satisfies,
\* whatever text appears in the other tag values or the name.
C5_StructuredBeforeText ==
    (cpc # "call" /\ StructuredCategory(ctags) # None) =>
        cresult = StructuredCategory(ctags)

Deduped == pc \notin {"elements", "idle"} /\ ei > Len(elements)

KeyAt(items, i) == DedupKey(items[i].csv)

\* the positions of items at which a dedup key occurs for the first time
FirstOccurrences(items) ==
    {i \in DOMAIN items : \A j \in 1..(i - 1) : KeyAt(items, j) # KeyAt(items, i)}

\* u is a subsequence of a
RECURSIVE IsSubsequence(_, _)
IsSubsequence(u, a) ==
    IF u = <<>> THEN TRUE
    ELSE IF a = <<>> THEN FALSE
    ELSE IF Head(u) = Head(a) THEN IsSubsequence(Tail(u), Tail(a))
    ELSE IsSubsequence(u, Tail(a))

\* C7: for every all-candidates list of one input row, the unique list
\* contains no two entries with equal dedup keys, is a subsequence of the
\* all-candidates list, and for each key present in the all-candidates list
\* contains exactly its first occurrence.
C7_UniqueIsFirstOccurrences ==
    Deduped =>
        LET all == matched_items_all
            unique == matched_items_unique
        IN /\ \A i, j \in DOMAIN unique : i # j => KeyAt(unique, i) # KeyAt(unique, j)
           /\ IsSubsequence(unique, all)
           /\ \A i \in DOMAIN all :
                (i \in FirstOccurrences(all)) <=>
                    (\E k \in DOMAIN unique :
                        /\ unique[k] = all[i]
                        /\ Cardinality({m \in DOMAIN unique :
                                            KeyAt(unique, m) = KeyAt(all, i)}) = 1)
           /\ Len(unique) = Cardinality(FirstOccurrences(all))

\* C7 witness: two candidates with the same rounded asset easting/northing
\* and different OSM ids, only the first of them in the unique list
C7_Witness ==
    /\ Deduped
    /\ Len(matched_items_all) = 2
    /\ matched_items_all[1].csv["Asset_Easting"] # ""
    /\ KeyAt(matched_items_all, 1) = KeyAt(matched_items_all, 2)
    /\ matched_items_all[1].csv["OSM_ID"] # matched_items_all[2].csv["OSM_ID"]
    /\ matched_items_unique = <<matched_items_all[1]>>

\* C8: two distinct features of one input row whose asset projected
\* coordinates are unavailable (empty Asset_Easting/Asset_Northing) are never
\* merged by deduplication: both appear in the unique list, also a node and
\* a way that carry the same numeric identifier.
C8_UnprojectedNeverMerged ==
    Deduped =>
        \A i, j \in DOMAIN matched_items_all :
            LET a == matched_items_all[i].csv
                b == matched_items_all[j].csv
            IN (/\ i # j
                /\ a["Asset_Easting"] = "" /\ a["Asset_Northing"] = ""
                /\ b["Asset_Easting"] = "" /\ b["Asset_Northing"] = ""
                /\ <<a["OSM_Type"], a["OSM_ID"]>> # <<b["OSM_Type"], b["OSM_ID"]>>)
               => /\ \E k \in DOMAIN matched_items_unique :
                        matched_items_unique[k] = matched_items_all[i]
                  /\ \E k \in DOMAIN matched_items_unique :
                        matched_items_unique[k] = matched_items_all[j]

\* the records the row i wrote
RecordsOf(i) == {k \in DOMAIN out : written[k] = i}

\* C9: no per-row failure aborts the run: whatever fails inside the
\* processing of one row, process_coords still processes every later row and
\* writes at least one output record for each input row.
C9_NoRowFailureAborts ==
    pc \in {"done", "raised", "word_done", "word_raised"} =>
        \A i \in DOMAIN rows : RecordsOf(i) # {}

\* the row's easting or northing is non-numeric or outside the domain of the
\* coordinate system
BadCoordinates(row) ==
    \/ FloatRaises(row.easting) \/ FloatRaises(row.northing)
    \/ ~InDomain(FloatOf[row.easting], FloatOf[row.northing])

IsInvalidCoordsRecord(r) ==
    \E text \in {rows[i].easting : i \in DOMAIN rows} \cup {rows[i].northing : i \in DOMAIN rows} :
        r["Exception"] = "Invalid input coords: " \o FloatErrorText(text)

\* C10: an input row whose easting or northing is non-numeric or outside the
\* valid domain of the coordinate system ends in Failed("invalid
\* coordinates"): exactly one error record is written for it, no geodata
\* query is issued for it, no match record is written for it, and the next
\* row is processed.
C10_BadCoordinatesFail ==
    \A i \in DOMAIN rows :
        BadCoordinates(rows[i]) =>
            /\ \A k \in DOMAIN requests : requests[k].row # i
            /\ \A k \in RecordsOf(i) : IsInvalidCoordsRecord(out[k])
            /\ i < idx => Cardinality(RecordsOf(i)) = 1
            /\ i = idx => pc # "raised"

\* the primary query of row i failed on every endpoint
PrimaryFailed(i) ==
    \E k \in DOMAIN requests :
        requests[k].row = i /\ requests[k].q = "primary" /\ ~requests[k].ok

\* r carries no asset and no zone
NoAssetFields(r) ==
    /\ r["Asset Name"] = "" /\ r["Category"] = "" /\ r["Distance(m)"] = ""
    /\ \A z \in ZONES : r[z] = ""
    /\ r["OSM_Type"] = "" /\ r["OSM_ID"] = ""
    /\ r["Asset_Easting"] = "" /\ r["Asset_Northing"] = ""

\* r is the error record of a primary query whose last endpoint failed
IsOverpassErrorRecord(r) ==
    /\ NoAssetFields(r)
    /\ r["Overpass_Server"] = ""
    /\ \E kind \in Failures :
        r["Exception"] = "Overpass error: " \o kind \o " "
                         \o OVERPASS_ENDPOINTS[Len(OVERPASS_ENDPOINTS)]

\* C11: when the primary query of a row fails on every endpoint, exactly one
\* error record is written for that row, carrying the last endpoint's error,
\* with empty asset/zone fields and no match record, and processing continues
\* with the next row.
C11_QueryFailureRecorded ==
    \A i \in DOMAIN rows :
        PrimaryFailed(i) =>
            /\ Cardinality(RecordsOf(i)) = 1
            /\ \A k \in RecordsOf(i) : IsOverpassErrorRecord(out[k])
            /\ i = idx => pc # "raised"

\* the endpoint that answered the primary query of row i, in a set
PrimaryServer(i) ==
    {requests[k].contacted[Len(requests[k].contacted)] :
        k \in {m \in DOMAIN requests :
                    requests[m].row = i /\ requests[m].q = "primary" /\ requests[m].ok}}

\* the element loop of the one row of SpecRow ran to its end after a
\* successful primary query and left no match
NoMatch ==
    /\ PrimaryServer(1) # {}
    /\ pc # "elements" /\ ei > Len(elements)
    /\ matched_items_all = <<>>

IsNoAssetRecord(r) == r["Exception"] = "No asset found within 100m range"

IsMatchRecord(r) == r["Exception"] = "" /\ r["Category"] # "" /\ r["OSM_Type"] # ""

IsErrorRecord(r) == IsOverpassErrorRecord(r) \/ IsInvalidCoordsRecord(r)

\* nothing more will be written for row i: a later row is being processed,
\* or the run ended (by its last row or by an exception leaving process_coords)
RowOver(i) == i < idx \/ pc \in {"done", "raised", "word_done", "word_raised"}

\* C13: for every input row, the records written are exactly one of three
\* mutually exclusive shapes: one record per entry of the row's unique list
\* (at least one), or exactly one 'no asset' record, or exactly one error
\* record; a row never yields zero records.
C13_ThreeShapes ==
    \A i \in DOMAIN rows :
        RowOver(i) =>
            LET recs == {out[k] : k \in RecordsOf(i)} IN
            /\ RecordsOf(i) # {}
            /\ \/ \A r \in recs : IsMatchRecord(r)
               \/ Cardinality(RecordsOf(i)) = 1 /\ \A r \in recs : IsNoAssetRecord(r)
               \/ Cardinality(RecordsOf(i)) = 1 /\ \A r \in recs : IsErrorRecord(r)
            /\ (i = idx - 1 /\ pc = "row" /\ matched_items_unique # <<>>
                /\ \A r \in recs : IsMatchRecord(r))
               => Cardinality(RecordsOf(i)) = Len(matched_items_unique)

\* the distances the resolution of el can end with, over the outcomes of the
\* relation-geometry requests
Resolutions(el) ==
    {r \in {ResolveDistance(el, h1, h2) : h1 \in SecondaryHealth, h2 \in SecondaryHealth} :
        r.outcome = "done" /\ r.ok}

\* the candidates of the element at position k of the response
ItemsOf(k) ==
    {i \in DOMAIN matched_items_all :
        /\ matched_items_all[i].csv["OSM_Type"] = elements[k].type
        /\ matched_items_all[i].csv["OSM_ID"] = elements[k].id}

\* C14: every entry of a row's all-candidates list has a category other than
\* none, an unrounded distance of at most 100 m and exactly one zone flag set
\* (the band of that distance); features classified none, features with no
\* resolvable distance and features farther than 100 m never appear.
C14_CandidatesSurviveFilters ==
    /\ \A i \in DOMAIN matched_items_all :
        LET csv == matched_items_all[i].csv IN
        \E k \in 1..(ei - 1) :
            /\ k \in DOMAIN elements /\ i \in ItemsOf(k)
            /\ csv["Category"] \in Categories
            /\ csv["Category"] = map_category_by_tags(elements[k].tags, NameOf(elements[k].tags))
            /\ Cardinality(Marked(csv)) = 1
            /\ \E r \in Resolutions(elements[k]) :
                /\ r.dist <= Metres(100)
                /\ csv["Distance(m)"] = Round2(r.dist)
                /\ Marked(csv) = {BandOf(r.dist)}
    /\ \A k \in DOMAIN elements :
        (\/ map_category_by_tags(elements[k].tags, NameOf(elements[k].tags)) = None
         \/ \A r \in Resolutions(elements[k]) : r.dist > Metres(100))
        => ItemsOf(k) = {}

\* C14 witness: a landfill beyond 100 m, then a fuel station at 8.4 m were
\* processed; only the fuel station is a candidate
C14_Witness ==
    /\ pc = "elements" /\ ei = 3
    /\ elements = <<FarWay, FuelNode>>
    /\ Len(matched_items_all) = 1
    /\ matched_items_all[1].csv["OSM_ID"] = FuelNode.id
    /\ Marked(matched_items_all[1].csv) = {ZONE_A}

\* the column of Table B (which has no '>50-100m' column) for a band
TableBColumn(band) == IF band \in {ZONE_A, ZONE_B} THEN band ELSE ZONE_C

\* the documents of the one row of the run were filled
DocsFilled == doc_items.risk # None /\ pc \in {"row", "done", "word_done", "word_raised"}

\* C15: every band decision taken for a match uses the unrounded distance;
\* the 2-decimal rounding is applied only to the reported Distance(m) and
\* never feeds a comparison or banding: the zone flags of the record, the
\* Table B column and the Table C risk of the documents are those of the
\* unrounded distance.
C15_BandsFromUnrounded ==
    DocsFilled =>
        \A k \in DOMAIN elements : \A i \in ItemsOf(k) :
            \A r \in Resolutions(elements[k]) :
                (/\ matched_items_all[i].csv["Distance(m)"] = Round2(r.dist)
                 /\ doc_items.items = matched_items_all)
                => /\ Marked(matched_items_all[i].csv) = {BandOf(r.dist)}
                   /\ doc_items.zone[i] = TableBColumn(BandOf(r.dist))
                   /\ BandOf(r.dist) = ZONE_A => doc_items.risk = "High"

\* the endpoints that answered the request q for the relation of id rel
AnsweredBy(q, rel) ==
    {requests[m].contacted[Len(requests[m].contacted)] :
        m \in {n \in DOMAIN requests :
                    requests[n].q = q /\ requests[n].rel = rel /\ requests[n].ok}}

\* the endpoint whose response holds the geometry the distance of the
\* element at position k was computed from
DataEndpoint(k) ==
    LET el == elements[k] IN
    IF AnsweredBy("rel_geom", el.id) # {} /\ el.rel_own.status = "ok"
    THEN AnsweredBy("rel_geom", el.id)
    ELSE IF /\ AnsweredBy("rel_members", el.id) # {}
            /\ \E j \in DOMAIN el.members : el.members[j].status = "ok"
    THEN AnsweredBy("rel_members", el.id)
    ELSE PrimaryServer(1)

\* C16: the endpoint recorded in each match record (Overpass_Server) is the
\* endpoint that supplied the data the match was resolved from, also for a
\* relation whose geometry was obtained by the secondary request after
\* failover to another endpoint than the primary query used.
C16_ServerIsDataEndpoint ==
    \A k \in 1..(ei - 1) :
        k \in DOMAIN elements =>
            \A i \in ItemsOf(k) :
                matched_items_all[i].csv["Overpass_Server"] \in DataEndpoint(k)

\* C17: the error field (Exception) of an output record is empty for every
\* row whose processing succeeded, i.e. for every match record and for the
\* record of a row whose query succeeded with no match; it is non-empty only
\* for invalid-input and geodata-failure records.
C17_ExceptionOnlyOnFailure ==
    \A k \in DOMAIN out :
        /\ out[k]["Category"] # "" => out[k]["Exception"] = ""
        /\ out[k]["Exception"] # "" => IsErrorRecord(out[k])

\* the relation-geometry fallback ran for the element at position k
FallbackRan(k) ==
    \E m \in DOMAIN requests : requests[m].q = "rel_geom" /\ requests[m].rel = elements[k].id

\* the coordinate sequences the fallback returned for the element at
\* position k: the relation's own geometry if the first request was answered
\* with one, else the member ways' geometries if the second was answered
Returned(k) ==
    LET el == elements[k] IN
    IF AnsweredBy("rel_geom", el.id) # {} /\ el.rel_own.status \notin {"absent", "empty"}
    THEN {el.rel_own}
    ELSE IF AnsweredBy("rel_members", el.id) # {}
    THEN {el.members[j] : j \in {m \in DOMAIN el.members :
                                     el.members[m].status \notin {"absent", "empty"}}}
    ELSE {}

\* those of the returned sequences that yield a distance
Yielding(k) == {g \in Returned(k) : g.status = "ok"}

\* the sequences of least distance
Nearest(k) == {g \in Yielding(k) : \A o \in Yielding(k) : g.dist <= o.dist}

\* C18: for a relation resolved through the relation-geometry fallback, the
\* reported distance is the minimum of the distances of all returned
\* coordinate sequences that yield a distance, and the reported nearest point
\* is the one of that minimum sequence; sequences that are empty or fail
\* geometry construction are ignored.
C18_FallbackTakesMinimum ==
    \A k \in 1..(ei - 1) :
        (k \in DOMAIN elements /\ FallbackRan(k) /\ Yielding(k) # {}) =>
            \A g \in Nearest(k) :
                /\ g.dist <= Metres(100) => ItemsOf(k) # {}
                /\ \A i \in ItemsOf(k) :
                    LET csv == matched_items_all[i].csv IN
                    /\ csv["Distance(m)"] = Round2(g.dist)
                    /\ Marked(csv) = {BandOf(g.dist)}
                    /\ matched_items_all[i].plot = g.near
                    /\ csv["Asset_Easting"] = FloatStr(Round2(g.near.e))
                    /\ csv["Asset_Northing"] = FloatStr(Round2(g.near.n))

\* C18 witness: member ways at 60 m, 45 m and 70 m, one invalid ring and one
\* empty way were returned; 45 m is reported, in zone '>25-50m'
C18_Witness ==
    /\ pc = "elements" /\ ei = 2
    /\ elements = <<MixedRelation>>
    /\ AnsweredBy("rel_members", MixedRelation.id) # {}
    /\ Len(matched_items_all) = 1
    /\ matched_items_all[1].csv["Distance(m)"] = Metres(45)
    /\ Marked(matched_items_all[1].csv) = {ZONE_C}

\* a relation-geometry request was made for the element at position k
SecondaryIssued(k) ==
    \E m \in DOMAIN requests :
        /\ requests[m].q \in {"rel_geom", "rel_members"}
        /\ requests[m].rel = elements[k].id

SecondaryOf(k) ==
    {m \in DOMAIN requests :
        requests[m].q \in {"rel_geom", "rel_members"} /\ requests[m].rel = elements[k].id}

\* the request ran the ordered endpoint failover: it stopped at the endpoint
\* that answered, or tried them all
FullFailover(req) ==
    /\ req.contacted = SubSeq(OVERPASS_ENDPOINTS, 1, Len(req.contacted))
    /\ Len(req.contacted) >= 1
    /\ ~req.ok => req.contacted = OVERPASS_ENDPOINTS

\* C20: fetch_relation_geometry_or_member_geoms first requests the relation's
\* own geometry and returns it alone if non-empty; it requests the member
\* ways' geometries only when the first request yielded no geometry or failed
\* on all endpoints; each of the two requests runs the full ordered endpoint
\* failover, and a failure of either or both is not propagated: the element
\* is resolved from what was returned (or from its center) and the row is
\* not failed.
C20_OwnGeometryThenMembers ==
    /\ \A k \in DOMAIN elements :
        LET el == elements[k]
            geom == {m \in SecondaryOf(k) : requests[m].q = "rel_geom"}
            memb == {m \in SecondaryOf(k) : requests[m].q = "rel_members"}
            own == el.rel_own.status \notin {"absent", "empty"}
        IN SecondaryOf(k) # {} =>
            /\ Cardinality(geom) = 1 /\ Cardinality(memb) <= 1
            /\ \A m \in geom, n \in memb : m < n
            /\ \A m \in SecondaryOf(k) : FullFailover(requests[m])
            /\ memb # {} <=> \A m \in geom : ~(requests[m].ok /\ own)
            /\ k < ei
            /\ (own /\ el.rel_own.status = "ok" /\ \E m \in geom : requests[m].ok) =>
                  \A i \in ItemsOf(k) :
                      matched_items_all[i].csv["Distance(m)"] = Round2(el.rel_own.dist)
            /\ (\A m \in SecondaryOf(k) : ~requests[m].ok) =>
                  \A i \in ItemsOf(k) :
                      /\ el.center.status = "ok"
                      /\ matched_items_all[i].csv["Distance(m)"] = Round2(el.center.dist)
    /\ pc = "raised" => (PrimaryFailed(1) \/ ei > Len(elements))

\* C20 witness: the first request failed on every endpoint, the second was
\* answered by the second endpoint with the member way at 80 m
C20_Witness ==
    /\ pc = "elements" /\ ei = 2
    /\ elements = <<BrokenInlineRelation>>
    /\ \E m, n \in SecondaryOf(1) :
        /\ requests[m].q = "rel_geom" /\ ~requests[m].ok
        /\ requests[n].q = "rel_members" /\ requests[n].ok
        /\ requests[n].contacted = SubSeq(OVERPASS_ENDPOINTS, 1, 2)
    /\ Len(matched_items_all) = 1
    /\ matched_items_all[1].csv["Distance(m)"] = Metres(80)

\* the kind-specific computation established no distance for the element at
\* position k: a node without coordinates, a way whose geometry is missing or
\* fails, a relation whose inline geometry and fallback yield none
NoKindDistance(k) ==
    LET el == elements[k] IN
    \/ el.type = "node" /\ ~el.latlon
    \/ el.type = "way" /\ el.geometry.status # "ok"
    \/ el.type = "relation" /\ el.geometry.status # "ok" /\ Yielding(k) = {}

\* C21: for every classified feature of any kind that carries a center and
\* for which no distance was established by its kind-specific computation
\* (missing coordinates, missing geometry, or geometry construction or
\* projection failure), the distance to the center is used and the feature
\* is a candidate if that distance is within the radius.
C21_CenterFallback ==
    \A k \in 1..(ei - 1) :
        (/\ k \in DOMAIN elements
         /\ map_category_by_tags(elements[k].tags, NameOf(elements[k].tags)) # None
         /\ elements[k].center.status = "ok"
         /\ NoKindDistance(k))
        => /\ elements[k].center.dist <= Metres(100) => ItemsOf(k) # {}
           /\ \A i \in ItemsOf(k) :
                matched_items_all[i].csv["Distance(m)"] = Round2(elements[k].center.dist)

\* building the ring or line of the geometry, or projecting it, raises
GeometryFails(el) == el.geometry.status \in {"bad_ring", "unprojectable"}

\* the position in the response of the element the candidate i was made of
PositionOf(i) == CHOOSE k \in DOMAIN elements : i \in ItemsOf(k)

C23_AllCandidatesKept ==
    [][(pc = "elements" /\ ei > Len(elements)) =>
        /\ matched_items_all' = matched_items_all
        /\ IsSubsequence(matched_items_unique', matched_items_all)
        /\ matched_items_unique' # <<>> =>
              out' = out \o [i \in DOMAIN matched_items_unique' |-> matched_items_unique'[i].csv]
        /\ Len(map_assets') = Len(matched_items_unique')
        /\ \A i \in DOMAIN map_assets' : map_assets'[i].point = matched_items_unique'[i].plot
        /\ (template_docx /\ pc' = "row") => doc_items'.items = matched_items_all
      ]_vars

\* C23 witness: two candidates with the same asset coordinates; one CSV
\* record and one map asset, both candidates in the document filling
C23_Witness ==
    /\ pc = "row" /\ idx = 2
    /\ Len(matched_items_all) = 2 /\ Len(matched_items_unique) = 1
    /\ Len(out) = 1 /\ Len(map_assets) = 1
    /\ doc_items.items = matched_items_all

\* the candidates of the current row at which a dedup key occurs first
FirstItems ==
    LET RECURSIVE pick(_)
        pick(n) ==
            IF n = 0 THEN <<>>
            ELSE IF n \in FirstOccurrences(matched_items_all)
                 THEN Append(pick(n - 1), matched_items_all[n].csv)
                 ELSE pick(n - 1)
    IN pick(Len(matched_items_all))

\* C24: rows are independent: the candidate and seen-key state is reset for
\* each input row, so the records written for a row depend only on that row
\* and on the responses received while processing it, never on earlier rows
\* (an asset already output for an earlier row is output again for a later
\* row near it), and every row with valid coordinates, also one repeating the
\* coordinates of an earlier row, issues its own primary query.
C24_RowsIndependent ==
    [][/\ (pc = "projected" /\ pc' # "projected") =>
            /\ Len(requests') = Len(requests) + 1
            /\ requests'[Len(requests')].row = idx
            /\ requests'[Len(requests')].q = "primary"
       /\ (pc = "projected" /\ pc' = "elements") =>
            /\ matched_items_all' = <<>> /\ matched_items_unique' = <<>>
       /\ (pc = "elements" /\ ei > Len(elements)) =>
            /\ matched_items_all # <<>> => out' = out \o FirstItems
            /\ matched_items_all = <<>> =>
                  /\ Len(out') = Len(out) + 1
                  /\ IsNoAssetRecord(out'[Len(out')])
            /\ \A k \in (Len(out) + 1)..Len(out') : written'[k] = idx
      ]_vars

\* C24 witness: two rows with the same coordinates, each with its own primary
\* query, each with the record of the same fuel station
C24_Witness ==
    /\ pc = "row" /\ idx = 3
    /\ Len(rows) = 2 /\ rows[1] = rows[2]
    /\ Len(requests) = 2 /\ requests[1].row = 1 /\ requests[2].row = 2
    /\ Len(out) = 2
    /\ IsMatchRecord(out[1]) /\ IsMatchRecord(out[2])
    /\ out[1]["OSM_ID"] = FuelNode.id /\ out[2]["OSM_ID"] = FuelNode.id
    /\ written = <<1, 2>>

\* C25: the distance band that CreatingWordFile ticks for a category agrees
\* with the zone flag written by process_coords for the same distance: for
\* the record with the minimum distance of a category, the Word answer is
\* '<10m' iff the '<10m' flag is set, '10-25m' iff the '10-25m' flag is set,
\* and '>25m' iff one of the '>25-50m' / '>50-100m' flags is set (in
\* particular at 10 m).
C25_WordBandMatchesZoneFlag ==
    pc = "word_done" =>
        \A doc \in word_saves : \A k \in doc.members :
            LET r == out[k] IN
            (/\ r["Category"] \in DOMAIN category_map
             /\ \A j \in doc.members :
                    out[j]["Category"] = r["Category"] =>
                        r["Distance(m)"] <= out[j]["Distance(m)"])
            => LET answer == doc.site_answers[category_map[r["Category"]]] IN
               /\ answer = "<10m" <=> r[ZONE_A] = "X"
               /\ answer = "10-25m" <=> r[ZONE_B] = "X"
               /\ answer = ">25m" <=> (r[ZONE_C] = "X" \/ r[ZONE_D] = "X")

\* C26: for every coordinate's group of output records, the risk level
\* chosen by CreatingWordFile is HighRisk whenever any match record of that
\* coordinate has the '<10m' flag set, MediumRisk whenever none has '<10m'
\* but some has '10-25m', and LowRisk otherwise, whatever the categories of
\* the matches (including 'Power Plants').
C26_RiskFromFlags ==
    pc = "word_done" =>
        \A doc \in word_saves :
            LET recs == {out[k] : k \in doc.members} IN
            doc.risk_level =
                IF \E r \in recs : r[ZONE_A] = "X" THEN "HighRisk"
                ELSE IF \E r \in recs : r[ZONE_B] = "X" THEN "MediumRisk"
                ELSE "LowRisk"

\* C27: in fill_dra_docx_and_export a matched item marks the Table B row of
\* its own category and no other row: an item of a category that
\* map_category_by_tags can return never sets a flag in the 'Waste Sites' row
\* unless its category is 'Waste Sites'.
C27_OwnTableBRow ==
    DocsFilled =>
        \A i \in DOMAIN doc_items.items :
            /\ doc_items.row[i] \in flags_by_cat_rows
            /\ doc_items.row[i] = "Waste Sites" =>
                  doc_items.items[i].csv["Category"] = "Waste Sites"

\* the categories of the csv rows of a list of candidates
CategoriesOf(items) == {items[i].csv["Category"] : i \in DOMAIN items}

\* C28: deduplication never removes a category from a row's output: every
\* category that occurs in the row's all-candidates list also occurs in its
\* unique list (and so in the csv from which CreatingWordFile computes the
\* per-category minimum distances), even when two features of different
\* categories resolve to the same rounded asset easting/northing.
C28_DedupKeepsCategories ==
    (pc = "row" /\ idx > 1) =>
        /\ CategoriesOf(matched_items_all) \subseteq CategoriesOf(matched_items_unique)
        /\ matched_items_all # <<>> =>
              CategoriesOf(matched_items_all) \subseteq
                  {out[k]["Category"] : k \in RecordsOf(idx - 1)}

(***************************************************************************)
(* Claims about app.py (SpecApp)                                           *)
(***************************************************************************)
\* the event is in the log of run r before position i
Before(i, r, event) ==
    \E j \in 1..(i - 1) : app_log[j] = [run |-> r, event |-> event]

\* C29: in the Streamlit run flow, Word-file generation is started only after
\* process_coords has completed successfully in the same run: if
\* process_coords raises, the 'processed' flag stays unset and no Word
\* generation thread is started (in particular not from an output csv left
\* at the same path by an earlier run); when the thread is started it is
\* joined before the Word files are listed and before the map step.
C29_WordOnlyAfterSuccess ==
    /\ \A i \in DOMAIN app_log :
        LET e == app_log[i] IN
        /\ e.event = "thread_start" => Before(i, e.run, "returned")
        /\ e.event \in {"list_word_files", "map"} =>
              (Before(i, e.run, "thread_start") =>
                 \E j \in 1..(i - 1) :
                    /\ app_log[j] = [run |-> e.run, event |-> "join"]
                    /\ Before(j, e.run, "thread_end"))
    /\ (\A i \in DOMAIN app_log : app_log[i].event # "returned") => ~processed
    /\ word_thread = "running" => apc = "thread"

(***************************************************************************)
(* Specifications                                                          *)
(***************************************************************************)
InitZone == ZoneInit /\ OverpassIdle /\ ClassifyIdle /\ RowsIdle /\ AppIdle

SpecZone == InitZone /\ [][CallZoneFlags]_vars

OverpassNext == TryEndpointOk \/ TryEndpointFails \/ RaiseLast

InitOverpass == OverpassInit /\ ZoneIdle /\ ClassifyIdle /\ RowsIdle /\ AppIdle

SpecOverpass == InitOverpass /\ [][OverpassNext]_vars

InitClassify == ClassifyInit /\ ZoneIdle /\ OverpassIdle /\ RowsIdle /\ AppIdle

ClassifyNext == Classify \/ ClassifyAgain

SpecClassify == InitClassify /\ [][ClassifyNext]_vars

\* one input row, a template, any elements of BigPool in the response
InitRow ==
    /\ RowsInit({<<r>> : r \in RowSamples}, {TRUE}, "row")
    /\ ZoneIdle /\ OverpassIdle /\ ClassifyIdle /\ AppIdle

SpecRow == InitRow /\ [][ProcessNext]_vars

\* one input row, a template, any elements of RelationPool in the response
InitRelation ==
    /\ RowsInit({<<r>> : r \in RowSamples}, {TRUE}, "relation")
    /\ ZoneIdle /\ OverpassIdle /\ ClassifyIdle /\ AppIdle

SpecRelation == InitRelation /\ [][ProcessNext]_vars

\* one input row, a template, any elements of WordPool in the response
InitWord ==
    /\ RowsInit({<<r>> : r \in RowSamples}, {TRUE}, "word")
    /\ ZoneIdle /\ OverpassIdle /\ ClassifyIdle /\ AppIdle

SpecWord == InitWord /\ [][ProcessNext]_vars

\* up to MaxRows input rows, elements of SmallPool in the responses
Init ==
    /\ RowsInit(UNION {[1..n -> RowSamples] : n \in 1..MaxRows}, BOOLEAN, "rows")
    /\ ZoneIdle /\ OverpassIdle /\ ClassifyIdle /\ AppIdle

Spec == Init /\ [][ProcessNext]_vars

\* one session of app.py with up to MaxRuns script runs
InitApp == AppInit /\ ZoneIdle /\ OverpassIdle /\ ClassifyIdle /\ RowsIdle

SpecApp == InitApp /\ [][AppNext]_vars

====
